---- MODULE Spec2Model ----
(***************************************************************************)
(* A model of the 5-stage MIPS pipeline simulator (src/pipeline.js, class  *)
(* MIPSPipeline).  The simulator's fields are the variables; every method  *)
(* is a function of a machine record m (one field per JS field), and each  *)
(* action applies one method to the current machine.                       *)
(***************************************************************************)
EXTENDS Integers, Naturals, Sequences, FiniteSets, TLC

VARIABLES
    registradores,    \* this.registradores : Array(32)
    memoria,          \* this.memoria : Array(1024), keyed by array index
    pipelineStages,   \* this.pipelineStages : {IF, ID, EX, MEM, WB}
    PC,               \* this.PC
    branchPredictor,  \* this.branchPredictor : Map address -> 0..3
    stalled,          \* this.stalled
    cycle,            \* this.cycle
    instructionCache, \* this.instructionCache : Map address -> instruction
    isRunning,        \* this.isRunning
    runInterval,      \* this.runInterval : null or the id setInterval gave
    runSpeed,         \* this.runSpeed
    timers,           \* the host's active interval timers (ids)
    instance,         \* history: which fetch (1, 2, ...) each slot's content is
    fetched,          \* history: number of fetches done so far
    loaded,           \* history: the lines given to the last loadProgram
    start,            \* history: the registers when stepping last began
    variant,          \* which source the simulator runs: "A" src/pipeline.js,
                      \* "B" src/unnamed/part_000
    hist              \* history: the last operation and the state it started in

vars == <<registradores, memoria, pipelineStages, PC, branchPredictor, stalled,
          cycle, instructionCache, isRunning, runInterval, runSpeed, timers,
          instance, fetched, loaded, start, variant, hist>>

-----------------------------------------------------------------------------
(* JavaScript values.  A value is a pair <<tag, payload>>, so that numbers,  *)
(* undefined, NaN and booleans can be stored in the same slot and compared.  *)

Num(n) == <<"number", n>>

Undefined == <<"undefined", 0>>

NaN == <<"NaN", 0>>

Bool(b) == <<"boolean", IF b THEN 1 ELSE 0>>

IsNum(v) == v[1] = "number"

\* v || 0 : a falsy v (0, NaN, undefined, false) gives 0
OrZero(v) ==
    IF IsNum(v) /\ v[2] # 0 THEN v
    ELSE IF v = Bool(TRUE) THEN v
    ELSE Num(0)

\* a === b : NaN is not equal to itself
StrictEq(a, b) == a = b /\ a # NaN

\* ToNumber for the values that occur: undefined -> NaN, booleans -> 0/1
ToNumber(v) ==
    IF v[1] = "number" THEN v
    ELSE IF v[1] = "boolean" THEN Num(v[2])
    ELSE NaN

JsAdd(a, b) ==
    IF IsNum(ToNumber(a)) /\ IsNum(ToNumber(b))
    THEN Num(ToNumber(a)[2] + ToNumber(b)[2]) ELSE NaN

JsSub(a, b) ==
    IF IsNum(ToNumber(a)) /\ IsNum(ToNumber(b))
    THEN Num(ToNumber(a)[2] - ToNumber(b)[2]) ELSE NaN

JsMul(a, b) ==
    IF IsNum(ToNumber(a)) /\ IsNum(ToNumber(b))
    THEN Num(ToNumber(a)[2] * ToNumber(b)[2]) ELSE NaN

-----------------------------------------------------------------------------
(* Program constants.                                                       *)

NumRegisters == 32

MemoryWords == 1024

WEAKLY_NOT_TAKEN == 1

WEAKLY_TAKEN == 2

STRONGLY_TAKEN == 3

STRONGLY_NOT_TAKEN == 0

DefaultRunSpeed == 1000

\* null where an object is expected (an empty slot, a rejected line)
Null == [isNull |-> TRUE]

\* null where a value is expected (no interval)
NullValue == <<"null", 0>>

\* an object's property, undefined when the object has none of that name
Field(obj, f) == IF f \in DOMAIN obj THEN Num(obj[f]) ELSE Undefined

Opcode(obj) == IF "opcode" \in DOMAIN obj THEN obj.opcode ELSE "undefined"

Type(obj) == IF "type" \in DOMAIN obj THEN obj.type ELSE "undefined"

\* An Array is its indexed elements (words, by non-negative integer index
\* below the length it was created with) and its other properties (extra, by
\* key value: a fractional, negative or larger index, NaN, undefined).
IsIndex(arr, index) == IsNum(index) /\ index[2] \in DOMAIN arr.words

\* arr[index]
ArrayGet(arr, index) ==
    IF IsIndex(arr, index) THEN arr.words[index[2]]
    ELSE IF index \in DOMAIN arr.extra THEN arr.extra[index]
    ELSE Undefined

\* arr[index] = value
ArraySet(arr, index, value) ==
    IF IsIndex(arr, index) THEN [arr EXCEPT !.words[index[2]] = value]
    ELSE [arr EXCEPT !.extra = [k \in DOMAIN @ \cup {index} |->
                                   IF k = index THEN value ELSE @[k]]]

\* the array key of address / 4: a whole index when address is a multiple of
\* 4, else the (fractional or NaN) property name that JavaScript uses
Div4(address) ==
    IF ~IsNum(address) THEN NaN
    ELSE IF address[2] % 4 = 0 THEN Num(address[2] \div 4)
    ELSE <<"quarters", address[2]>>

NopObject == [type |-> "NOP", opcode |-> "nop"]

EmptyStages == [IF |-> Null, ID |-> Null, EX |-> Null, MEM |-> Null, WB |-> Null]

NoInstance == [IF |-> 0, ID |-> 0, EX |-> 0, MEM |-> 0, WB |-> 0]

EmptyMap == [k \in {} |-> 0]

\* new MIPSPipeline()
Constructed ==
    [registradores |-> [i \in 0..(NumRegisters - 1) |-> Num(0)],
     memoria |-> [words |-> [i \in 0..(MemoryWords - 1) |-> Num(0)],
                  extra |-> EmptyMap],
     pipelineStages |-> EmptyStages,
     PC |-> 0,
     branchPredictor |-> EmptyMap,
     stalled |-> FALSE,
     cycle |-> 0,
     instructionCache |-> EmptyMap,
     isRunning |-> FALSE,
     runInterval |-> NullValue,
     runSpeed |-> DefaultRunSpeed,
     timers |-> {},
     instance |-> NoInstance,
     fetched |-> 0,
     loaded |-> <<>>]

-----------------------------------------------------------------------------
(* Hazard detection and forwarding.                                          *)

IsMemOp(instr) == Opcode(instr) = "lw" \/ Opcode(instr) = "sw"

\* detectStructuralHazard()
DetectStructuralHazard(m) ==
    LET st == m.pipelineStages IN
    \/ /\ st.MEM # Null /\ st.IF # Null
       /\ IsMemOp(st.MEM.instruction)
       /\ IsMemOp(st.IF)
    \/ /\ st.EX # Null /\ st.ID # Null
       /\ Opcode(st.EX.instruction) = "mul"
       /\ Opcode(st.ID.instruction) = "mul"

\* a variant of detectDataHazard() without the check for a load in EX
DetectDataHazardRType(m) ==
    LET st == m.pipelineStages IN
    IF st.ID = Null \/ st.EX = Null THEN FALSE
    ELSE LET idInstruction == st.ID.instruction
             exInstruction == st.EX.instruction IN
         /\ Type(exInstruction) = "R_TYPE"
         /\ \/ StrictEq(Field(idInstruction, "rs"), Field(exInstruction, "rd"))
            \/ StrictEq(Field(idInstruction, "rt"), Field(exInstruction, "rd"))

\* detectDataHazard()
DetectDataHazard(m) ==
    LET st == m.pipelineStages IN
    IF st.ID = Null \/ st.EX = Null THEN FALSE
    ELSE LET idInstruction == st.ID.instruction
             exInstruction == st.EX.instruction IN
         \/ /\ Type(exInstruction) = "R_TYPE"
            /\ \/ StrictEq(Field(idInstruction, "rs"), Field(exInstruction, "rd"))
               \/ StrictEq(Field(idInstruction, "rt"), Field(exInstruction, "rd"))
         \/ /\ Opcode(exInstruction) = "lw"
            /\ \/ StrictEq(Field(idInstruction, "rs"), Field(exInstruction, "rt"))
               \/ StrictEq(Field(idInstruction, "rt"), Field(exInstruction, "rt"))

\* a variant of detectControlHazard() that reports jumps only
DetectControlHazardJump(m) ==
    LET st == m.pipelineStages IN
    IF st.ID = Null THEN FALSE
    ELSE Opcode(st.ID.instruction) = "j"

\* detectControlHazard()
DetectControlHazard(m) ==
    LET st == m.pipelineStages IN
    IF st.ID = Null THEN FALSE
    ELSE Opcode(st.ID.instruction) = "beq" \/ Opcode(st.ID.instruction) = "j"

\* detectHazards()
DetectHazards(m) ==
    DetectStructuralHazard(m) \/ DetectDataHazard(m) \/ DetectControlHazard(m)

\* one forwarding block: the ID slot after taking the result of slot `from`
\* (an R-type producer) for each of rs, rt that names the producer's rd
ForwardInto(id, from) ==
    IF Type(from.instruction) # "R_TYPE" THEN id
    ELSE LET rsHit == StrictEq(Field(id.instruction, "rs"), Field(from.instruction, "rd"))
             rtHit == StrictEq(Field(id.instruction, "rt"), Field(from.instruction, "rd"))
         IN [id EXCEPT !.rsValue = IF rsHit THEN from.result ELSE @,
                       !.rtValue = IF rtHit THEN from.result ELSE @]

\* a variant of executeForwarding() that forwards nothing
NoForwarding(m) == m

\* executeForwarding(): the EX block, then the MEM block on top of it
ExecuteForwarding(m) ==
    LET st == m.pipelineStages IN
    IF st.ID = Null \/ st.EX = Null THEN m
    ELSE LET afterEX == ForwardInto(st.ID, st.EX)
             afterMEM == IF st.MEM # Null THEN ForwardInto(afterEX, st.MEM)
                         ELSE afterEX
         IN [m EXCEPT !.pipelineStages.ID = afterMEM]

-----------------------------------------------------------------------------
(* The five stages.                                                          *)

\* registradores[index] for an index value (undefined for no such index)
RegGet(regs, index) ==
    IF IsNum(index) /\ index[2] \in DOMAIN regs THEN regs[index[2]] ELSE Undefined

\* regs[index] = value
RegSet(regs, index, value) ==
    [k \in DOMAIN regs \cup {index} |-> IF k = index THEN value ELSE regs[k]]

\* fetchInstruction(address)
FetchInstruction(m, address) ==
    IF address \in DOMAIN m.instructionCache
    THEN m.instructionCache[address] ELSE Null

\* a variant of executeWB() that copies MEM into WB without clearing MEM
ExecuteWBKeepsMEM(m) ==
    LET st == m.pipelineStages IN
    IF st.MEM = Null THEN m
    ELSE [m EXCEPT !.pipelineStages.WB = st.MEM, !.instance.WB = m.instance.MEM]

\* a variant of executeWB() that writes rt for every I-type instruction
ExecuteWBEveryIType(m) ==
    LET st == m.pipelineStages IN
    IF st.MEM = Null THEN m
    ELSE LET instruction == st.MEM.instruction
             result == st.MEM.result
             regs == IF Type(instruction) = "R_TYPE"
                     THEN RegSet(m.registradores, instruction.rd, result)
                     ELSE IF Type(instruction) = "I_TYPE"
                     THEN RegSet(m.registradores, instruction.rt, result)
                     ELSE m.registradores
         IN [m EXCEPT !.registradores = regs,
                      !.pipelineStages.WB = [instruction |-> instruction, result |-> result],
                      !.pipelineStages.MEM = Null,
                      !.instance.WB = m.instance.MEM,
                      !.instance.MEM = 0]

\* executeWB()
ExecuteWB(m) ==
    LET st == m.pipelineStages IN
    IF st.MEM = Null THEN m
    ELSE LET instruction == st.MEM.instruction
             result == st.MEM.result
             regs == IF Type(instruction) = "R_TYPE"
                     THEN RegSet(m.registradores, instruction.rd, result)
                     ELSE IF Opcode(instruction) = "lw"
                     THEN RegSet(m.registradores, instruction.rt, result)
                     ELSE m.registradores
         IN [m EXCEPT !.registradores = regs,
                      !.pipelineStages.WB = [instruction |-> instruction, result |-> result],
                      !.pipelineStages.MEM = Null,
                      !.instance.WB = m.instance.MEM,
                      !.instance.MEM = 0]

\* a variant of EffectiveAddress that leaves the offset out
BaseAddress(m, instruction) == RegGet(m.registradores, Field(instruction, "rs"))

\* the address of lw and sw: this.registradores[instruction.rs] + instruction.offset
EffectiveAddress(m, instruction) ==
    JsAdd(RegGet(m.registradores, Field(instruction, "rs")), Field(instruction, "offset"))

\* a variant of executeMEM() in which sw stores the result carried from EX
ExecuteMEMStoresResult(m) ==
    LET st == m.pipelineStages IN
    IF st.EX = Null THEN m
    ELSE LET instruction == st.EX.instruction
             address == EffectiveAddress(m, instruction)
             result == IF Opcode(instruction) = "lw"
                       THEN ArrayGet(m.memoria, Div4(address))
                       ELSE st.EX.result
             mem == IF Opcode(instruction) = "sw"
                    THEN ArraySet(m.memoria, Div4(address), st.EX.result)
                    ELSE m.memoria
         IN [m EXCEPT !.memoria = mem,
                      !.pipelineStages.MEM = [instruction |-> instruction, result |-> result],
                      !.pipelineStages.EX = Null,
                      !.instance.MEM = m.instance.EX,
                      !.instance.EX = 0]

\* executeMEM()
ExecuteMEM(m) ==
    LET st == m.pipelineStages IN
    IF st.EX = Null THEN m
    ELSE LET instruction == st.EX.instruction
             address == EffectiveAddress(m, instruction)
             result == IF Opcode(instruction) = "lw"
                       THEN ArrayGet(m.memoria, Div4(address))
                       ELSE st.EX.result
             mem == IF Opcode(instruction) = "sw"
                    THEN ArraySet(m.memoria, Div4(address),
                                  RegGet(m.registradores, Field(instruction, "rt")))
                    ELSE m.memoria
         IN [m EXCEPT !.memoria = mem,
                      !.pipelineStages.MEM = [instruction |-> instruction, result |-> result],
                      !.pipelineStages.EX = Null,
                      !.instance.MEM = m.instance.EX,
                      !.instance.EX = 0]

\* the switch of executeEX(): the result of an opcode on the cached operands
ExResult(opcode, rsValue, rtValue) ==
    CASE opcode = "add" -> JsAdd(rsValue, rtValue)
      [] opcode = "sub" -> JsSub(rsValue, rtValue)
      [] opcode = "mul" -> JsMul(rsValue, rtValue)
      [] opcode = "beq" -> Bool(StrictEq(rsValue, rtValue))
      [] OTHER -> Undefined

\* executeEX()
ExecuteEX(m) ==
    LET st == m.pipelineStages IN
    IF st.ID = Null THEN m
    ELSE LET instruction == st.ID.instruction
             result == ExResult(Opcode(instruction), st.ID.rsValue, st.ID.rtValue)
         IN [m EXCEPT !.pipelineStages.EX = [instruction |-> instruction, result |-> result],
                      !.pipelineStages.ID = Null,
                      !.instance.EX = m.instance.ID,
                      !.instance.ID = 0]

\* a variant of DecodePC in which a taken beq adds its offset to the next PC
DecodePCRelative(m, instruction) ==
    IF Opcode(instruction) = "beq"
    THEN LET rsValue == OrZero(RegGet(m.registradores, Field(instruction, "rs")))
             rtValue == OrZero(RegGet(m.registradores, Field(instruction, "rt")))
         IN IF StrictEq(rsValue, rtValue)
            THEN m.PC + 4 + instruction.offset * 4 ELSE m.PC + 4
    ELSE IF Opcode(instruction) = "j" THEN instruction.target * 4
    ELSE m.PC + 4

\* a variant of DecodePC in which a j does not redirect
DecodePCNoJump(m, instruction) ==
    IF Opcode(instruction) = "beq"
    THEN LET rsValue == OrZero(RegGet(m.registradores, Field(instruction, "rs")))
             rtValue == OrZero(RegGet(m.registradores, Field(instruction, "rt")))
         IN IF StrictEq(rsValue, rtValue) THEN instruction.offset * 4 ELSE m.PC + 4
    ELSE m.PC + 4

\* a variant of DecodePC in which a j takes its target as a byte address
DecodePCByteTarget(m, instruction) ==
    IF Opcode(instruction) = "beq"
    THEN LET rsValue == OrZero(RegGet(m.registradores, Field(instruction, "rs")))
             rtValue == OrZero(RegGet(m.registradores, Field(instruction, "rt")))
         IN IF StrictEq(rsValue, rtValue) THEN instruction.offset * 4 ELSE m.PC + 4
    ELSE IF Opcode(instruction) = "j" THEN instruction.target
    ELSE m.PC + 4

\* the PC that executeID() leaves for the instruction it decodes
DecodePC(m, instruction) ==
    IF Opcode(instruction) = "beq"
    THEN LET rsValue == OrZero(RegGet(m.registradores, Field(instruction, "rs")))
             rtValue == OrZero(RegGet(m.registradores, Field(instruction, "rt")))
             actualTaken == StrictEq(rsValue, rtValue)
         IN IF actualTaken THEN instruction.offset * 4 ELSE m.PC + 4
    ELSE IF Opcode(instruction) = "j" THEN instruction.target * 4
    ELSE m.PC + 4

\* executeID(): the NOP written into IF for a taken beq or a j is overwritten
\* by the null that ends the method; the ID slot gets the decoded instruction.
ExecuteID(m) ==
    LET st == m.pipelineStages IN
    IF st.IF = Null THEN m
    ELSE LET instruction == st.IF
         IN [m EXCEPT !.PC = DecodePC(m, instruction),
                      !.pipelineStages.ID =
                          [instruction |-> instruction,
                           rsValue |-> OrZero(RegGet(m.registradores, Field(instruction, "rs"))),
                           rtValue |-> OrZero(RegGet(m.registradores, Field(instruction, "rt")))],
                      !.pipelineStages.IF = Null,
                      !.instance.ID = m.instance.IF,
                      !.instance.IF = 0]

\* a variant of executeIF() that advances PC when it fetches
ExecuteIFAdvancing(m) ==
    IF m.stalled THEN m
    ELSE LET instruction == FetchInstruction(m, m.PC) IN
         IF instruction # Null
         THEN [m EXCEPT !.pipelineStages.IF = instruction,
                        !.instance.IF = m.fetched + 1,
                        !.fetched = m.fetched + 1,
                        !.PC = @ + 4]
         ELSE m

\* a variant of executeIF() that moves past an address with no instruction
ExecuteIFSkipping(m) ==
    IF m.stalled THEN m
    ELSE LET instruction == FetchInstruction(m, m.PC) IN
         IF instruction # Null
         THEN [m EXCEPT !.pipelineStages.IF = instruction,
                        !.instance.IF = m.fetched + 1,
                        !.fetched = m.fetched + 1]
         ELSE [m EXCEPT !.PC = @ + 4]

\* executeIF()
ExecuteIF(m) ==
    IF m.stalled THEN m
    ELSE LET instruction == FetchInstruction(m, m.PC) IN
         IF instruction # Null
         THEN [m EXCEPT !.pipelineStages.IF = instruction,
                        !.instance.IF = m.fetched + 1,
                        !.fetched = m.fetched + 1]
         ELSE m

\* a variant of the stage calls in which a stall holds IF and ID in place
\* and sends a bubble to EX
RunStagesHolding(m) ==
    IF m.stalled THEN ExecuteMEM(ExecuteWB(m))
    ELSE ExecuteIF(ExecuteID(ExecuteEX(ExecuteMEM(ExecuteWB(m)))))

\* a variant of the stage calls in which the MEM stage runs before the WB
\* stage
RunStagesMemFirst(m) == ExecuteIF(ExecuteID(ExecuteEX(ExecuteWB(ExecuteMEM(m)))))

\* the five stage calls of executeCycle(), in the order the code makes them
RunStages(m) == ExecuteIF(ExecuteID(ExecuteEX(ExecuteMEM(ExecuteWB(m)))))

\* a variant of executeCycle() that also stalls in every second cycle
ExecuteCycleAlternating(m) ==
    LET forwarded == ExecuteForwarding(m)
        hasHazard == DetectHazards(forwarded) \/ m.cycle % 2 = 1
        gated == [forwarded EXCEPT !.stalled = hasHazard]
    IN [RunStages(gated) EXCEPT !.cycle = @ + 1]

\* executeCycle(); updateUI() changes no field
ExecuteCycle(m) ==
    LET forwarded == ExecuteForwarding(m)
        hasHazard == DetectHazards(forwarded)
        gated == [forwarded EXCEPT !.stalled = hasHazard]
    IN [RunStages(gated) EXCEPT !.cycle = @ + 1]

-----------------------------------------------------------------------------
(* Branch predictor.                                                         *)

\* a variant of EnsureEntry that starts an unseen address as weakly taken
EnsureEntryTaken(table, address) ==
    IF address \in DOMAIN table THEN table
    ELSE [k \in DOMAIN table \cup {address} |->
              IF k = address THEN WEAKLY_TAKEN ELSE table[k]]

\* a variant of EnsureEntry that keeps no entry but the one of the address
EnsureEntryOnly(table, address) ==
    [k \in {address} |->
        IF address \in DOMAIN table THEN table[address] ELSE WEAKLY_NOT_TAKEN]

\* the lazy initialisation both predictor methods start with
EnsureEntry(table, address) ==
    IF address \in DOMAIN table THEN table
    ELSE [k \in DOMAIN table \cup {address} |->
              IF k = address THEN WEAKLY_NOT_TAKEN ELSE table[k]]

Min(a, b) == IF a < b THEN a ELSE b

Max(a, b) == IF a > b THEN a ELSE b

\* predictBranch(address): the machine it leaves
PredictBranch(m, address) ==
    [m EXCEPT !.branchPredictor = EnsureEntry(m.branchPredictor, address)]

\* predictBranch(address): the value it returns
PredictBranchResult(m, address) ==
    EnsureEntry(m.branchPredictor, address)[address] >= WEAKLY_TAKEN

\* a variant of NextCounter that wraps around instead of saturating
NextCounterWrapping(state, taken) ==
    IF taken THEN (state + 1) % (STRONGLY_TAKEN + 1)
    ELSE (state + STRONGLY_TAKEN) % (STRONGLY_TAKEN + 1)

\* the counter after one update
NextCounter(state, taken) ==
    IF taken THEN Min(state + 1, STRONGLY_TAKEN)
    ELSE Max(state - 1, STRONGLY_NOT_TAKEN)

\* updateBranchPredictor(address, taken)
UpdateBranchPredictor(m, address, taken) ==
    LET table == EnsureEntry(m.branchPredictor, address) IN
    [m EXCEPT !.branchPredictor =
                  [table EXCEPT ![address] = NextCounter(table[address], taken)]]

-----------------------------------------------------------------------------
(* The engine of src/unnamed/part_000.  Its executeWB, executeMEM,          *)
(* executeEX, executeIF, executeForwarding, data and control hazard checks  *)
(* and predictor have the same text as in src/pipeline.js; its executeID   *)
(* and its structural hazard check differ.                                  *)

\* detectStructuralHazard() of part_000
DetectStructuralHazardB(m) ==
    LET st == m.pipelineStages IN
    IF st.MEM # Null /\ st.IF # Null
    THEN IsMemOp(st.MEM.instruction)
    ELSE FALSE

\* detectHazards() of part_000
DetectHazardsB(m) ==
    DetectStructuralHazardB(m) \/ DetectDataHazard(m) \/ DetectControlHazard(m)

\* the end of executeID() of part_000: the instruction moves from IF to ID
DecodedB(m, instruction, pc) ==
    [m EXCEPT !.PC = pc,
              !.pipelineStages.ID =
                  [instruction |-> instruction,
                   rsValue |-> RegGet(m.registradores, Field(instruction, "rs")),
                   rtValue |-> RegGet(m.registradores, Field(instruction, "rt"))],
              !.pipelineStages.IF = Null,
              !.instance.ID = m.instance.IF,
              !.instance.IF = 0]

\* the misprediction branch of executeID() of part_000: two new NOP objects
\* take the IF and ID slots and the method returns
SquashedB(m, pc) ==
    [m EXCEPT !.PC = pc,
              !.pipelineStages.IF = NopObject,
              !.pipelineStages.ID =
                  [instruction |-> NopObject, rsValue |-> Num(0), rtValue |-> Num(0)],
              !.instance.IF = m.fetched + 1,
              !.instance.ID = m.fetched + 2,
              !.fetched = m.fetched + 2]

\* a variant of executeID() of part_000 that resolves branches in decode
\* with no prediction, as src/pipeline.js does
ExecuteIDBResolving(m) == ExecuteID(m)

\* executeID() of part_000
ExecuteIDB(m) ==
    LET st == m.pipelineStages IN
    IF st.IF = Null THEN m
    ELSE LET instruction == st.IF IN
         IF Opcode(instruction) = "beq"
         THEN LET predictedTaken == PredictBranchResult(m, m.PC)
                  rsValue == RegGet(m.registradores, Field(instruction, "rs"))
                  rtValue == RegGet(m.registradores, Field(instruction, "rt"))
                  actualTaken == StrictEq(rsValue, rtValue)
                  updated == UpdateBranchPredictor(PredictBranch(m, m.PC), m.PC, actualTaken)
              IN IF predictedTaken # actualTaken
                 THEN SquashedB(updated, IF actualTaken
                                         THEN m.PC + instruction.offset * 4
                                         ELSE m.PC + 4)
                 ELSE DecodedB(updated, instruction, m.PC + 4)
         ELSE IF Opcode(instruction) = "j"
         THEN DecodedB(PredictBranch(m, m.PC), instruction, instruction.target * 4)
         ELSE DecodedB(m, instruction, m.PC + 4)

\* the five stage calls of executeCycle() of part_000
RunStagesB(m) == ExecuteIF(ExecuteIDB(ExecuteEX(ExecuteMEM(ExecuteWB(m)))))

\* executeCycle() of part_000
ExecuteCycleB(m) ==
    LET forwarded == ExecuteForwarding(m)
        hasHazard == DetectHazardsB(forwarded)
        gated == [forwarded EXCEPT !.stalled = hasHazard]
    IN [RunStagesB(gated) EXCEPT !.cycle = @ + 1]

-----------------------------------------------------------------------------
(* Run control and reset.                                                    *)

\* setInterval: the id of the new timer.  The host gives an id no active
\* timer has; the least such id stands for it.
NewTimerId(active) ==
    CHOOSE id \in 1..(Cardinality(active) + 1) :
        id \notin active /\ \A j \in 1..(id - 1) : j \in active

\* a variant of run() without the check of isRunning
RunUnguarded(m) ==
    LET id == NewTimerId(m.timers) IN
    [m EXCEPT !.isRunning = TRUE,
              !.runInterval = Num(id),
              !.timers = @ \cup {id}]

\* run()
Run(m) ==
    IF m.isRunning THEN m
    ELSE LET id == NewTimerId(m.timers) IN
         [m EXCEPT !.isRunning = TRUE,
                   !.runInterval = Num(id),
                   !.timers = @ \cup {id}]

\* a variant of stop() that leaves the interval timer active
StopKeepsTimer(m) ==
    IF ~m.isRunning THEN m
    ELSE [m EXCEPT !.isRunning = FALSE, !.runInterval = NullValue]

\* stop(): clearInterval of a value that is no active id does nothing
Stop(m) ==
    IF ~m.isRunning THEN m
    ELSE [m EXCEPT !.isRunning = FALSE,
                   !.timers = IF IsNum(m.runInterval) THEN @ \ {m.runInterval[2]} ELSE @,
                   !.runInterval = NullValue]

\* setRunSpeed(speed)
SetRunSpeed(m, speed) ==
    LET set == [m EXCEPT !.runSpeed = speed] IN
    IF set.isRunning THEN Run(Stop(set)) ELSE set

\* reset(); the history counters restart with the emptied pipeline
Reset(m) ==
    [Stop(m) EXCEPT !.registradores = Constructed.registradores,
                    !.memoria = Constructed.memoria,
                    !.pipelineStages = EmptyStages,
                    !.PC = 0,
                    !.branchPredictor = EmptyMap,
                    !.instructionCache = EmptyMap,
                    !.stalled = FALSE,
                    !.cycle = 0,
                    !.instance = NoInstance,
                    !.fetched = 0,
                    !.loaded = <<>>]

\* pipeline.registradores[index] = value (initial-state injection)
InjectRegister(m, index, value) ==
    [m EXCEPT !.registradores = [@ EXCEPT ![index] = value]]

\* pipeline.memoria[index / 4] = value, index a byte address
InjectMemory(m, address, value) ==
    [m EXCEPT !.memoria = ArraySet(@, Div4(Num(address)), value)]

-----------------------------------------------------------------------------
(* Program text.  A source line is modelled after trim() as an optional     *)
(* "label:" prefix, the white-space separated parts that follow it (commas  *)
(* removed) and an optional trailing "# comment".  A part is a token:       *)
(*   <<"word", w>>     a bare word (an opcode, a label name, anything else) *)
(*   <<"$s", n>>       the register name "$s" followed by the numeral n     *)
(*   <<"int", n>>      a decimal integer                                    *)
(*   <<"mem", n, t>>   "n(t)" with n a decimal integer and t a "$..." token *)
(* Label names are words that are not numerals.                             *)

Word(w) == <<"word", w>>

Reg(n) == <<"$s", n>>

Lit(n) == <<"int", n>>

MemOperand(n, t) == <<"mem", n, t>>

NoLabel == ""

\* String.prototype.toLowerCase on the words used as opcodes
ToLowerCase(w) ==
    CASE w = "ADD" -> "add" [] w = "SUB" -> "sub" [] w = "MUL" -> "mul"
      [] w = "LW" -> "lw" [] w = "SW" -> "sw" [] w = "BEQ" -> "beq"
      [] w = "J" -> "j" [] w = "NOP" -> "nop"
      [] OTHER -> w

\* parseRegister(str): the register index, or null
ParseRegister(tok) ==
    IF tok[1] = "$s" /\ tok[2] \in 0..(NumRegisters - 1) THEN Num(tok[2]) ELSE NullValue

\* parseInt(str)
ParseInt(tok) == IF tok[1] = "int" THEN Num(tok[2]) ELSE NaN

\* labels.has(str)
HasLabel(labels, tok) == tok[1] = "word" /\ tok[2] \in DOMAIN labels

\* parseRTypeInstruction(parts)
ParseRTypeInstruction(parts) ==
    IF Len(parts) # 4 THEN Null
    ELSE LET rd == ParseRegister(parts[2])
             rs == ParseRegister(parts[3])
             rt == ParseRegister(parts[4])
         IN IF NullValue \in {rd, rs, rt} THEN Null
            ELSE [type |-> "R_TYPE", opcode |-> parts[1][2],
                  rs |-> rs[2], rt |-> rt[2], rd |-> rd[2]]

\* parseITypeInstruction(parts, labels)
ParseITypeInstruction(parts, labels) ==
    LET opcode == ToLowerCase(parts[1][2]) IN
    IF opcode = "beq" THEN
        IF Len(parts) # 4 THEN Null
        ELSE LET rs == ParseRegister(parts[2])
                 rt == ParseRegister(parts[3])
                 offset == IF HasLabel(labels, parts[4])
                           THEN Num(labels[parts[4][2]])
                           ELSE ParseInt(parts[4])
             IN IF NullValue \in {rs, rt} \/ offset = NaN THEN Null
                ELSE [type |-> "I_TYPE", opcode |-> "beq",
                      rs |-> rs[2], rt |-> rt[2], offset |-> offset[2],
                      labelName |-> IF HasLabel(labels, parts[4])
                                    THEN parts[4][2] ELSE NoLabel]
    ELSE IF opcode = "lw" \/ opcode = "sw" THEN
        IF Len(parts) # 3 THEN Null
        ELSE LET rt == ParseRegister(parts[2]) IN
             IF parts[3][1] # "mem" THEN Null
             ELSE LET offset == parts[3][2]
                      rs == ParseRegister(parts[3][3])
                  IN IF NullValue \in {rs, rt} THEN Null
                     ELSE [type |-> "I_TYPE", opcode |-> opcode,
                           rs |-> rs[2], rt |-> rt[2], offset |-> offset]
    ELSE Null

\* parseJTypeInstruction(parts, labels)
ParseJTypeInstruction(parts, labels) ==
    IF Len(parts) # 2 THEN Null
    ELSE LET target == IF HasLabel(labels, parts[2])
                       THEN Num(labels[parts[2][2]])
                       ELSE ParseInt(parts[2])
         IN IF target = NaN THEN Null
            ELSE [type |-> "J_TYPE", opcode |-> parts[1][2], target |-> target[2],
                  labelName |-> IF HasLabel(labels, parts[2])
                                THEN parts[2][2] ELSE NoLabel]

\* parseInstruction(line, labels); the comment is cut off before the split
ParseInstruction(parts, labels) ==
    IF parts = <<>> \/ parts[1][1] # "word" THEN Null
    ELSE LET opcode == ToLowerCase(parts[1][2]) IN
         CASE opcode \in {"add", "sub", "mul"} -> ParseRTypeInstruction(parts)
           [] opcode \in {"lw", "sw", "beq"} -> ParseITypeInstruction(parts, labels)
           [] opcode = "j" -> ParseJTypeInstruction(parts, labels)
           [] opcode = "nop" -> NopObject
           [] OTHER -> Null

\* the test both passes make: text is left after the label and it is no comment
HasInstructionText(line) == line.parts # <<>>

\* a variant of FirstPass in which a line that is only a label takes an
\* address
RECURSIVE FirstPassCounting(_, _, _, _)
FirstPassCounting(lines, i, address, labels) ==
    IF i > Len(lines) THEN labels
    ELSE LET line == lines[i]
             labels2 == IF line.label # NoLabel
                        THEN [k \in DOMAIN labels \cup {line.label} |->
                                  IF k = line.label THEN address \div 4 ELSE labels[k]]
                        ELSE labels
         IN FirstPassCounting(lines, i + 1,
                              IF line.parts # <<>> \/ line.label # NoLabel
                              THEN address + 4 ELSE address,
                              labels2)

\* first pass of loadProgram: the label table
RECURSIVE FirstPass(_, _, _, _)
FirstPass(lines, i, address, labels) ==
    IF i > Len(lines) THEN labels
    ELSE LET line == lines[i]
             labels2 == IF line.label # NoLabel
                        THEN [k \in DOMAIN labels \cup {line.label} |->
                                  IF k = line.label THEN address \div 4 ELSE labels[k]]
                        ELSE labels
         IN FirstPass(lines, i + 1,
                      IF HasInstructionText(line) THEN address + 4 ELSE address,
                      labels2)

\* a variant of SecondPass that gives a rejected line no address
RECURSIVE SecondPassPacked(_, _, _, _, _)
SecondPassPacked(lines, i, address, labels, cache) ==
    IF i > Len(lines) THEN cache
    ELSE LET instr == ParseInstruction(lines[i].parts, labels) IN
         IF instr # Null
         THEN SecondPassPacked(lines, i + 1, address + 4, labels,
                               [k \in DOMAIN cache \cup {address} |->
                                   IF k = address THEN instr ELSE cache[k]])
         ELSE SecondPassPacked(lines, i + 1, address, labels, cache)

\* second pass of loadProgram: the instruction store
RECURSIVE SecondPass(_, _, _, _, _)
SecondPass(lines, i, address, labels, cache) ==
    IF i > Len(lines) THEN cache
    ELSE LET line == lines[i] IN
         IF HasInstructionText(line)
         THEN LET instr == ParseInstruction(line.parts, labels)
                  cache2 == IF instr # Null
                            THEN [k \in DOMAIN cache \cup {address} |->
                                      IF k = address THEN instr ELSE cache[k]]
                            ELSE cache
              IN SecondPass(lines, i + 1, address + 4, labels, cache2)
         ELSE SecondPass(lines, i + 1, address, labels, cache)

\* a variant of ClearedCache that keeps the old entries
KeptCache(cache) == cache

\* the store loadProgram starts from: instructionCache.clear()
ClearedCache(cache) == EmptyMap

\* a variant of loadProgram() that also empties the pipeline
LoadProgramFlushing(m, lines) ==
    LET labels == FirstPass(lines, 1, 0, EmptyMap) IN
    [m EXCEPT !.instructionCache =
                  SecondPass(lines, 1, 0, labels, ClearedCache(m.instructionCache)),
              !.PC = 0,
              !.loaded = lines,
              !.pipelineStages = EmptyStages,
              !.instance = NoInstance]

\* loadProgram(programText); the alert and updateUI() change no field
LoadProgram(m, lines) ==
    LET labels == FirstPass(lines, 1, 0, EmptyMap) IN
    [m EXCEPT !.instructionCache =
                  SecondPass(lines, 1, 0, labels, ClearedCache(m.instructionCache)),
              !.PC = 0,
              !.loaded = lines]

-----------------------------------------------------------------------------
(* The loader of src/unnamed/part_000: one pass, no labels.  A "label:"     *)
(* prefix is part of the line's first word there, so such a line is an      *)
(* instruction line with an unknown opcode.                                 *)

\* the token "$" followed by the numeral n
Dollar(n) == <<"$", n>>

\* parseRegister(str) of part_000: an alias "$sN", else parseInt of the text
\* without its "$"
ParseRegisterB(tok) ==
    IF tok[1] = "$s" /\ tok[2] \in 0..(NumRegisters - 1) THEN Num(tok[2])
    ELSE IF tok[1] \in {"$", "int"} THEN Num(tok[2])
    ELSE NullValue

\* parseRTypeInstruction(parts) of part_000
ParseRTypeInstructionB(parts) ==
    IF Len(parts) # 4 THEN Null
    ELSE LET rd == ParseRegisterB(parts[2])
             rs == ParseRegisterB(parts[3])
             rt == ParseRegisterB(parts[4])
         IN IF NullValue \in {rd, rs, rt} THEN Null
            ELSE [type |-> "R_TYPE", opcode |-> parts[1][2],
                  rs |-> rs[2], rt |-> rt[2], rd |-> rd[2]]

\* parseITypeInstruction(parts) of part_000
ParseITypeInstructionB(parts) ==
    LET opcode == ToLowerCase(parts[1][2]) IN
    IF opcode = "beq" THEN
        IF Len(parts) # 4 THEN Null
        ELSE LET rs == ParseRegisterB(parts[2])
                 rt == ParseRegisterB(parts[3])
                 offset == ParseInt(parts[4])
             IN IF NullValue \in {rs, rt} \/ offset = NaN THEN Null
                ELSE [type |-> "I_TYPE", opcode |-> "beq",
                      rs |-> rs[2], rt |-> rt[2], offset |-> offset[2]]
    ELSE IF opcode = "lw" \/ opcode = "sw" THEN
        IF Len(parts) # 3 THEN Null
        ELSE LET rt == ParseRegisterB(parts[2]) IN
             IF parts[3][1] # "mem" THEN Null
             ELSE LET offset == parts[3][2]
                      rs == ParseRegisterB(parts[3][3])
                  IN IF NullValue \in {rs, rt} THEN Null
                     ELSE [type |-> "I_TYPE", opcode |-> opcode,
                           rs |-> rs[2], rt |-> rt[2], offset |-> offset]
    ELSE Null

\* parseJTypeInstruction(parts) of part_000
ParseJTypeInstructionB(parts) ==
    IF Len(parts) # 2 THEN Null
    ELSE LET target == ParseInt(parts[2])
         IN IF target = NaN THEN Null
            ELSE [type |-> "J_TYPE", opcode |-> parts[1][2], target |-> target[2]]

\* parseInstruction(line) of part_000, on a line with or without a label prefix
ParseInstructionB(line) ==
    LET parts == line.parts IN
    IF line.label # NoLabel \/ parts = <<>> \/ parts[1][1] # "word" THEN Null
    ELSE LET opcode == ToLowerCase(parts[1][2]) IN
         CASE opcode \in {"add", "sub", "mul"} -> ParseRTypeInstructionB(parts)
           [] opcode \in {"lw", "sw", "beq"} -> ParseITypeInstructionB(parts)
           [] opcode = "j" -> ParseJTypeInstructionB(parts)
           [] opcode = "nop" -> NopObject
           [] OTHER -> Null

\* the loop of loadProgram of part_000
RECURSIVE LoadPassB(_, _, _, _)
LoadPassB(lines, i, address, cache) ==
    IF i > Len(lines) THEN cache
    ELSE LET line == lines[i] IN
         IF line.parts # <<>> \/ line.label # NoLabel
         THEN LET instr == ParseInstructionB(line)
                  cache2 == IF instr # Null
                            THEN [k \in DOMAIN cache \cup {address} |->
                                      IF k = address THEN instr ELSE cache[k]]
                            ELSE cache
              IN LoadPassB(lines, i + 1, address + 4, cache2)
         ELSE LoadPassB(lines, i + 1, address, cache)

\* loadProgram(programText) of part_000
LoadProgramB(m, lines) ==
    [m EXCEPT !.instructionCache = LoadPassB(lines, 1, 0, EmptyMap),
              !.PC = 0,
              !.loaded = lines]

\* the register loop of the file-input handler: data.registradores maps the
\* numeral n of a name "$sn" to a value; names that are no alias are skipped
InjectRegisters(m, regs) ==
    [m EXCEPT !.registradores =
        [i \in DOMAIN @ |-> IF i \in DOMAIN regs THEN Num(regs[i]) ELSE @[i]]]

\* the memory loop of the file-input handler: data.memoria maps byte
\* addresses to values, each stored at key address / 4
RECURSIVE InjectMemoryAll(_, _)
InjectMemoryAll(m, mem) ==
    IF DOMAIN mem = {} THEN m
    ELSE LET a == CHOOSE x \in DOMAIN mem : TRUE
             rest == [x \in DOMAIN mem \ {a} |-> mem[x]]
         IN InjectMemoryAll(
                [m EXCEPT !.memoria = ArraySet(@, Div4(Num(a)), Num(mem[a]))], rest)

\* the file-input handler: reset, load, then inject registers and memory
LoadFile(m, data) ==
    InjectMemoryAll(
        InjectRegisters(LoadProgram(Reset(m), data.program), data.registradores),
        data.memoria)

\* the memory loop of the file-input handler of part_000: each value is
\* stored at the key that is the byte address itself
RECURSIVE InjectMemoryAllB(_, _)
InjectMemoryAllB(m, mem) ==
    IF DOMAIN mem = {} THEN m
    ELSE LET a == CHOOSE x \in DOMAIN mem : TRUE
             rest == [x \in DOMAIN mem \ {a} |-> mem[x]]
         IN InjectMemoryAllB(
                [m EXCEPT !.memoria = ArraySet(@, Num(a), Num(mem[a]))], rest)

\* the file-input handler of part_000; its reset() and its register loop
\* have the effect of those of src/pipeline.js
LoadFileB(m, data) ==
    InjectMemoryAllB(
        InjectRegisters(LoadProgramB(Reset(m), data.program), data.registradores),
        data.memoria)

-----------------------------------------------------------------------------
(* The machine as a record, and the step from it to a new machine.          *)

Machine ==
    [registradores |-> registradores, memoria |-> memoria,
     pipelineStages |-> pipelineStages, PC |-> PC,
     branchPredictor |-> branchPredictor, stalled |-> stalled, cycle |-> cycle,
     instructionCache |-> instructionCache, isRunning |-> isRunning,
     runInterval |-> runInterval, runSpeed |-> runSpeed, timers |-> timers,
     instance |-> instance, fetched |-> fetched, loaded |-> loaded]

\* what the history keeps of the state an operation started in
Before(m) ==
    [pipelineStages |-> m.pipelineStages, PC |-> m.PC,
     instructionCache |-> m.instructionCache,
     branchPredictor |-> m.branchPredictor, stalled |-> m.stalled,
     isRunning |-> m.isRunning]

\* the registers a run of steps starts from, and whether memory is then
\* nothing but its word slots
Started(m) ==
    [registradores |-> m.registradores, wordsOnly |-> m.memoria.extra = EmptyMap]

IsMachine(m) ==
    /\ registradores = m.registradores /\ memoria = m.memoria
    /\ pipelineStages = m.pipelineStages /\ PC = m.PC
    /\ branchPredictor = m.branchPredictor /\ stalled = m.stalled
    /\ cycle = m.cycle /\ instructionCache = m.instructionCache
    /\ isRunning = m.isRunning /\ runInterval = m.runInterval
    /\ runSpeed = m.runSpeed /\ timers = m.timers
    /\ instance = m.instance /\ fetched = m.fetched /\ loaded = m.loaded

\* the machine becomes m2 by operation op with argument arg
Becomes(m2, op, arg) ==
    /\ registradores' = m2.registradores /\ memoria' = m2.memoria
    /\ pipelineStages' = m2.pipelineStages /\ PC' = m2.PC
    /\ branchPredictor' = m2.branchPredictor /\ stalled' = m2.stalled
    /\ cycle' = m2.cycle /\ instructionCache' = m2.instructionCache
    /\ isRunning' = m2.isRunning /\ runInterval' = m2.runInterval
    /\ runSpeed' = m2.runSpeed /\ timers' = m2.timers
    /\ instance' = m2.instance /\ fetched' = m2.fetched /\ loaded' = m2.loaded
    /\ start' = IF op \in {"executeCycle", "timer"} THEN start ELSE Started(m2)
    /\ variant' = variant
    /\ hist' = [op |-> op, arg |-> arg, before |-> Before(Machine)]

\* the machine of variant v is m, left by operation op
StartsIn(v, m, op) ==
    /\ IsMachine(m)
    /\ start = Started(m)
    /\ variant = v
    /\ hist = [op |-> op, arg |-> <<>>, before |-> Before(Constructed)]

\* the machine of src/pipeline.js is m, left by operation op
StartsAs(m, op) == StartsIn("A", m, op)

\* the two variants of the simulator
Variants == {"A", "B"}

\* a variant of LoadProgramOf that keys the store by instruction index
LoadProgramOfIndexed(v, m, lines) ==
    LET m2 == IF v = "A" THEN LoadProgram(m, lines) ELSE LoadProgramB(m, lines)
        keys == {k \div 4 : k \in DOMAIN m2.instructionCache}
    IN [m2 EXCEPT !.instructionCache = [i \in keys |-> m2.instructionCache[4 * i]]]

\* loadProgram(programText) of variant v
LoadProgramOf(v, m, lines) ==
    IF v = "A" THEN LoadProgram(m, lines) ELSE LoadProgramB(m, lines)

\* executeCycle() of variant v
ExecuteCycleOf(v, m) ==
    IF v = "A" THEN ExecuteCycle(m) ELSE ExecuteCycleB(m)

-----------------------------------------------------------------------------
(* Inputs: source lines, programs and files.                                *)

Ln(parts) == [label |-> NoLabel, parts |-> parts, comment |-> FALSE]

Lbl(name, parts) == [label |-> name, parts |-> parts, comment |-> FALSE]

CommentLine == [label |-> NoLabel, parts |-> <<>>, comment |-> TRUE]

BlankLine == [label |-> NoLabel, parts |-> <<>>, comment |-> FALSE]

RIns(op, rd, rs, rt) == <<Word(op), Reg(rd), Reg(rs), Reg(rt)>>

MemIns(op, rt, off, rs) == <<Word(op), Reg(rt), MemOperand(off, Reg(rs))>>

BeqIns(rs, rt, target) == <<Word("beq"), Reg(rs), Reg(rt), target>>

JIns(target) == <<Word("j"), target>>

NopIns == <<Word("nop")>>

\* steps a run may take before the model stops stepping it
MaxCycle == 7

\* the source lines the loader programs are made of: accepted lines, lines
\* with a label, a line that is only a label, a comment, a blank line, uses
\* of labels, a line with an unknown opcode, and a line whose registers are
\* written "$1" (accepted by part_000 only)
LoaderPool ==
    {Ln(RIns("add", 1, 2, 3)), Lbl("top", NopIns), Lbl("end", <<>>),
     CommentLine, BlankLine,
     Ln(BeqIns(1, 1, Word("end"))), Ln(JIns(Word("top"))),
     Ln(<<Word("addi"), Reg(1), Reg(2), Lit(3)>>),
     Ln(<<Word("add"), Dollar(1), Dollar(2), Dollar(3)>>)}

\* lines of a loader program
LoaderLines == 3

LoaderPrograms == [1..LoaderLines -> LoaderPool]

\* programs loaded over an earlier program
ReloadPrograms ==
    {<<Ln(<<Word("addi"), Reg(1), Reg(2), Lit(3)>>), Ln(RIns("add", 1, 2, 3))>>}

\* steps a loaded program is run for in the loader runs
MaxLoaderCycle == 2

\* the instructions the engine programs are made of
EnginePool ==
    {Ln(RIns("add", 1, 2, 3)), Ln(RIns("sub", 1, 4, 5)), Ln(RIns("mul", 6, 1, 1)),
     Ln(RIns("add", 7, 1, 2)), Ln(MemIns("lw", 1, 0, 0)), Ln(MemIns("sw", 6, 4, 0)),
     Ln(BeqIns(2, 2, Lit(0))), Ln(JIns(Lit(3))), Ln(NopIns)}

EngineRegisters == (2 :> 1) @@ (3 :> 2) @@ (4 :> 3) @@ (5 :> 5)

EngineMemory == (0 :> 42) @@ (4 :> 7)

EngineFiles ==
    {[program |-> p, registradores |-> EngineRegisters, memoria |-> EngineMemory] :
        p \in [1..4 -> EnginePool]}

\* two dependent R-type instructions over the registers $s0..$s2
ROps == {"add", "sub", "mul"}

PairShapes ==
    {t \in ROps \X {1, 2} \X {0, 1} \X {0, 1} \X ROps \X {1, 2} \X (0..2) \X (0..2) :
        t[7] = t[2] \/ t[8] = t[2]}

PairPrograms ==
    {<<Ln(RIns(t[1], t[2], t[3], t[4])), Ln(RIns(t[5], t[6], t[7], t[8]))>> :
        t \in PairShapes}

PairValues == {-2, 0, 3}

PairFiles ==
    {[program |-> p, registradores |-> r, memoria |-> EmptyMap] :
        p \in PairPrograms, r \in [0..2 -> PairValues]}

\* a single lw over the registers $s0..$s2
LwPrograms ==
    {<<Ln(MemIns("lw", rt, off, rs))>> : rt \in 0..2, rs \in 0..2, off \in {-4, 0, 4}}

LwMemory == (0 :> 42) @@ (4 :> 7) @@ (8 :> -1) @@ (4088 :> 9) @@ (4092 :> 11)

LwFiles ==
    {[program |-> p, registradores |-> r, memoria |-> LwMemory] :
        p \in LwPrograms, r \in [0..2 -> {0, 4, 4092}]}

\* stores and loads at aligned, unaligned and out-of-range addresses, a use
\* of the loaded register, and a line the parser rejects
MemPool ==
    {Ln(MemIns("sw", 1, 8, 0)), Ln(MemIns("sw", 1, 2, 0)),
     Ln(MemIns("sw", 1, 4096, 0)), Ln(MemIns("sw", 1, -4, 0)),
     Ln(MemIns("lw", 2, 8, 0)), Ln(MemIns("lw", 2, 2, 0)),
     Ln(MemIns("lw", 2, 4096, 0)), Ln(RIns("add", 3, 2, 2)),
     Ln(<<Word("addi"), Reg(1), Reg(2), Lit(3)>>)}

MemRegisters == (1 :> 5)

\* the memoria field of the files: byte addresses that are aligned and in
\* range, unaligned, and out of range
MemMemories == {(8 :> 7), (8 :> 7) @@ (6 :> 9), (4096 :> 9)}

MemFiles ==
    {[program |-> p, registradores |-> MemRegisters, memoria |-> mem] :
        p \in [1..3 -> MemPool], mem \in MemMemories}

\* memory instructions, multiplications, dependent and independent
\* additions, a branch and a jump, in programs of four lines
HazardPool ==
    {Ln(MemIns("lw", 1, 0, 0)), Ln(MemIns("sw", 2, 4, 0)), Ln(RIns("mul", 3, 2, 2)),
     Ln(RIns("add", 4, 3, 1)), Ln(RIns("add", 5, 6, 6)), Ln(NopIns),
     Ln(BeqIns(0, 0, Lit(2))), Ln(JIns(Lit(1)))}

HazardPrograms == [1..4 -> HazardPool]

\* a beq that is not taken until $s1 has been raised, a beq that is always
\* taken, a jump, the addition that raises $s1, and a nop
ControlPool ==
    {Ln(BeqIns(1, 2, Lit(0))), Ln(BeqIns(3, 3, Lit(2))), Ln(JIns(Lit(1))),
     Ln(RIns("add", 1, 1, 2)), Ln(NopIns)}

ControlRegisters == (2 :> 1)

ControlFiles ==
    {[program |-> p, registradores |-> ControlRegisters, memoria |-> EmptyMap] :
        p \in [1..4 -> ControlPool]}

\* programs made only of add, sub and mul, three lines long, over two
\* register files
ArithPool ==
    {Ln(RIns("add", 1, 2, 3)), Ln(RIns("sub", 1, 4, 5)), Ln(RIns("mul", 6, 1, 1)),
     Ln(RIns("add", 7, 1, 2)), Ln(RIns("sub", 2, 6, 1))}

ArithRegisters == {EngineRegisters, (1 :> -2) @@ (2 :> 3) @@ (3 :> 4) @@ (5 :> 1)}

ArithFiles ==
    {[program |-> p, registradores |-> r, memoria |-> EmptyMap] :
        p \in [1..3 -> ArithPool], r \in ArithRegisters}

\* steps taken on an arithmetic program: enough to drain three instructions
\* with a suppressed fetch after each
MaxArithCycle == 11

\* programs of four lines without beq or j: a load, its use, a
\* multiplication, a store, and a line the parser rejects
StraightPool ==
    {Ln(MemIns("lw", 1, 0, 0)), Ln(RIns("add", 7, 1, 2)), Ln(RIns("mul", 6, 1, 1)),
     Ln(MemIns("sw", 6, 4, 0)), Ln(<<Word("addi"), Reg(1), Reg(2), Lit(3)>>)}

StraightFiles ==
    {[program |-> p, registradores |-> EngineRegisters, memoria |-> EngineMemory] :
        p \in [1..4 -> StraightPool]}

\* steps taken on a program without beq or j: enough to drain four
\* instructions and to step the drained pipeline
MaxStraightCycle == 12

\* programs that are in flight when another is loaded over them, and the
\* programs loaded over them
FlightPool ==
    {Ln(RIns("add", 1, 2, 3)), Ln(MemIns("sw", 2, 4, 0)), Ln(RIns("mul", 6, 2, 2))}

FlightFiles ==
    {[program |-> p, registradores |-> EngineRegisters, memoria |-> EmptyMap] :
        p \in [1..2 -> FlightPool]}

SecondPrograms == {<<Ln(RIns("sub", 7, 5, 4))>>, <<Ln(NopIns), Ln(RIns("sub", 7, 5, 4))>>}

\* steps taken around the second load
MaxFlightCycle == 7

\* programs for the predictor of part_000: a beq on itself whose registers
\* are equal until the add has written, one whose registers stay equal,
\* one that is never taken, a jump back, and a nop
PredictPool ==
    {Ln(RIns("add", 1, 1, 2)), Ln(NopIns), Ln(BeqIns(1, 2, Lit(0))),
     Ln(BeqIns(3, 3, Lit(0))), Ln(BeqIns(2, 3, Lit(1))), Ln(JIns(Lit(0)))}

PredictRegisters == (1 :> 1) @@ (2 :> 1)

PredictFiles ==
    {[program |-> p, registradores |-> PredictRegisters, memoria |-> (8 :> 7)] :
        p \in [1..3 -> PredictPool]}

\* programs with labels, label-only lines, comment lines and branches
BranchPool ==
    {Lbl("top", RIns("add", 1, 1, 2)), Ln(RIns("add", 1, 1, 2)), Lbl("top", <<>>),
     CommentLine, Lbl("end", NopIns),
     Ln(BeqIns(3, 4, Word("top"))), Ln(BeqIns(1, 3, Word("top"))),
     Ln(BeqIns(3, 4, Word("end")))}

BranchRegisters == (1 :> 0) @@ (2 :> 1) @@ (3 :> 1) @@ (4 :> 1)

BranchFiles ==
    {[program |-> p, registradores |-> BranchRegisters, memoria |-> EmptyMap] :
        p \in [1..4 -> BranchPool]}

\* the programs, injections, speeds and predictor addresses of the
\* simulator and predictor specifications
SimPrograms ==
    {<<Lbl("top", BeqIns(0, 0, Word("top"))), Ln(MemIns("sw", 1, 4, 0)),
       Ln(RIns("add", 1, 2, 2))>>,
     <<CommentLine, Ln(MemIns("lw", 3, 0, 0))>>}

SimRegisterWrites == {<<2, 5>>}

SimMemoryWrites == {<<6, 9>>}

SimSpeeds == {100}

SimAddresses == {0}

PredictorAddresses == {0, 4}

PredictorPrograms == {<<Ln(BeqIns(0, 0, Lit(0)))>>}

\* steps the simulator and predictor specifications take after a reset
MaxRunCycle == 3

-----------------------------------------------------------------------------
(* Actions.                                                                  *)

LoadProgramFrom(programs) ==
    \E lines \in programs : Becomes(LoadProgram(Machine, lines), "loadProgram", <<>>)

Step ==
    /\ cycle < MaxCycle
    /\ Becomes(ExecuteCycle(Machine), "executeCycle", <<>>)

\* executeCycle() called directly, within the run bound
RunStep ==
    /\ cycle < MaxRunCycle
    /\ Becomes(ExecuteCycle(Machine), "executeCycle", <<>>)

\* the callback of an active interval timer: executeCycle()
TimerTick ==
    /\ timers # {}
    /\ cycle < MaxRunCycle
    /\ Becomes(ExecuteCycle(Machine), "timer", <<>>)

RunAct == Becomes(Run(Machine), "run", <<>>)

StopAct == Becomes(Stop(Machine), "stop", <<>>)

SetRunSpeedAct == \E speed \in SimSpeeds : Becomes(SetRunSpeed(Machine, speed), "setRunSpeed", <<speed>>)

ResetAct == Becomes(Reset(Machine), "reset", <<>>)

InjectRegisterAct ==
    \E w \in SimRegisterWrites :
        Becomes(InjectRegister(Machine, w[1], Num(w[2])), "injectRegister", w)

InjectMemoryAct ==
    \E w \in SimMemoryWrites :
        Becomes(InjectMemory(Machine, w[1], Num(w[2])), "injectMemory", w)

\* predictBranch(address); the value it returns is kept as the argument's
\* second component
PredictFrom(addresses) ==
    \E a \in addresses :
        Becomes(PredictBranch(Machine, a), "predictBranch",
                <<a, PredictBranchResult(Machine, a)>>)

UpdateFrom(addresses) ==
    \E a \in addresses, taken \in BOOLEAN :
        Becomes(UpdateBranchPredictor(Machine, a, taken), "updateBranchPredictor",
                <<a, taken>>)

\* a program loaded into a new simulator of either variant
ProgramLoadedFrom(programs) ==
    \E v \in Variants, lines \in programs :
        \E m \in {LoadProgramOf(v, Constructed, lines)} : StartsIn(v, m, "loadProgram")

\* executeCycle() of the variant that runs
StepOf ==
    /\ cycle < MaxCycle
    /\ Becomes(ExecuteCycleOf(variant, Machine), "executeCycle", <<>>)

HazardInit == ProgramLoadedFrom(HazardPrograms)

HazardNext == StepOf

SpecHazard == HazardInit /\ [][HazardNext]_vars

LoaderInit == ProgramLoadedFrom(LoaderPrograms)

LoaderStep ==
    /\ cycle < MaxLoaderCycle
    /\ Becomes(ExecuteCycleOf(variant, Machine), "executeCycle", <<>>)

LoaderReload ==
    /\ cycle > 0
    /\ \E lines \in ReloadPrograms :
           Becomes(LoadProgramOf(variant, Machine, lines), "loadProgram", <<>>)

LoaderNext ==
    \/ LoaderStep
    \/ LoaderReload

SpecLoader == LoaderInit /\ [][LoaderNext]_vars

\* a file loaded into a new simulator
LoadedFrom(files) ==
    \E data \in files :
        \E m \in {LoadFile(Constructed, data)} : StartsAs(m, "loadFile")

EngineInit == LoadedFrom(EngineFiles)

EngineNext == Step

SpecEngine == EngineInit /\ [][EngineNext]_vars

PairInit == LoadedFrom(PairFiles)

PairNext == Step

SpecPair == PairInit /\ [][PairNext]_vars

LwInit == LoadedFrom(LwFiles)

LwNext == Step

SpecLw == LwInit /\ [][LwNext]_vars

ArithInit == LoadedFrom(ArithFiles)

ArithNext ==
    /\ cycle < MaxArithCycle
    /\ Becomes(ExecuteCycle(Machine), "executeCycle", <<>>)

SpecArith == ArithInit /\ [][ArithNext]_vars

StraightInit == LoadedFrom(StraightFiles)

StraightNext ==
    /\ cycle < MaxStraightCycle
    /\ Becomes(ExecuteCycle(Machine), "executeCycle", <<>>)

SpecStraight == StraightInit /\ [][StraightNext]_vars

\* the cycle counter of a step; a step can be taken in every state within
\* the bound, and stepping goes on as long as the bound allows
StraightTick == cycle < MaxStraightCycle /\ cycle' = cycle + 1

SpecStraightLive == SpecStraight /\ WF_cycle(StraightTick)

FlightInit == LoadedFrom(FlightFiles)

FlightStep ==
    /\ cycle < MaxFlightCycle
    /\ Becomes(ExecuteCycle(Machine), "executeCycle", <<>>)

\* loadProgram() called once more, with no reset, on the stepped simulator
FlightLoad ==
    /\ cycle > 0
    /\ loaded \notin SecondPrograms
    /\ \E lines \in SecondPrograms :
           Becomes(LoadProgram(Machine, lines), "loadProgram", <<>>)

FlightNext ==
    \/ FlightStep
    \/ FlightLoad

SpecFlight == FlightInit /\ [][FlightNext]_vars

MemInit == LoadedFrom(MemFiles)

MemNext == Step

SpecMem == MemInit /\ [][MemNext]_vars

\* a file loaded into a new simulator of part_000
PredictInit ==
    \E data \in PredictFiles :
        \E m \in {LoadFileB(Constructed, data)} : StartsIn("B", m, "loadFile")

PredictNext == StepOf

SpecPredict == PredictInit /\ [][PredictNext]_vars

ControlInit == LoadedFrom(ControlFiles)

ControlNext == Step

SpecControl == ControlInit /\ [][ControlNext]_vars

BranchInit == LoadedFrom(BranchFiles)

BranchNext == Step

SpecBranch == BranchInit /\ [][BranchNext]_vars

\* a new simulator
NewInit == StartsAs(Constructed, "constructor")

\* the whole interface of the simulator on small inputs
SimInit == NewInit

SimLoadProgram == LoadProgramFrom(SimPrograms)

SimPredict == PredictFrom(SimAddresses)

SimNext ==
    \/ SimLoadProgram
    \/ InjectRegisterAct
    \/ InjectMemoryAct
    \/ RunStep
    \/ TimerTick
    \/ RunAct
    \/ StopAct
    \/ SetRunSpeedAct
    \/ SimPredict
    \/ ResetAct

SpecSimulator == SimInit /\ [][SimNext]_vars

\* the click handler of the next-cycle button: stop(), then executeCycle()
NextCycleClick ==
    /\ cycle < MaxRunCycle
    /\ Becomes(ExecuteCycle(Stop(Machine)), "nextCycle", <<>>)

\* the click handler of the run button: stop() when running, else run()
RunClick ==
    Becomes(IF isRunning THEN Stop(Machine) ELSE Run(Machine), "runClick", <<>>)

\* run control: the two buttons, the methods behind them, reset, the timer
\* callback and a load, from a new simulator
TimerInit == NewInit

TimerLoadProgram == LoadProgramFrom(SimPrograms)

TimerNext ==
    \/ TimerLoadProgram
    \/ RunAct
    \/ StopAct
    \/ SetRunSpeedAct
    \/ ResetAct
    \/ NextCycleClick
    \/ RunClick
    \/ TimerTick

SpecTimer == TimerInit /\ [][TimerNext]_vars

\* the predictor on three addresses, with load, step and reset around it
PredictorInit == NewInit

PredictorPredict == PredictFrom(PredictorAddresses)

PredictorUpdate == UpdateFrom(PredictorAddresses)

PredictorLoadProgram == LoadProgramFrom(PredictorPrograms)

PredictorNext ==
    \/ PredictorPredict
    \/ PredictorUpdate
    \/ PredictorLoadProgram
    \/ RunStep
    \/ ResetAct

SpecPredictor == PredictorInit /\ [][PredictorNext]_vars

-----------------------------------------------------------------------------
(* Claims.                                                                   *)

\* a step of the engine has just been taken
Stepped == hist.op = "executeCycle"

\* the slot holds an R-type instruction that writes register r
WritesReg(slot, r) ==
    /\ slot # Null
    /\ Type(slot.instruction) = "R_TYPE"
    /\ slot.instruction.rd = r

\* the instruction reads register r through its field f (rs or rt): every
\* instruction with the field reads it, except lw, whose rt is its target
ReadsAs(instr, f, r) ==
    /\ Field(instr, f) = Num(r)
    /\ ~(Opcode(instr) = "lw" /\ f = "rt")

\* C1: whenever, at the start of a step, EX and MEM both hold an R-type
\* instruction writing the same register r and the ID instruction reads r
\* as rs (or rt), the ID slot's cached rs-value (or rt-value) after
\* executeForwarding is the EX result.  The code applies the MEM block
\* after the EX block, so this fails: on add $s1,$s2,$s3 / sub $s1,$s4,$s5 /
\* mul $s6,$s1,$s1 the fifth step starts with ID = mul, EX = sub, MEM = add
\* and leaves the result of the add in both cached values.
C1_ExWinsOverMem ==
    LET st == pipelineStages
        after == ExecuteForwarding(Machine).pipelineStages.ID
    IN \A r \in 0..(NumRegisters - 1) :
        (st.ID # Null /\ WritesReg(st.EX, r) /\ WritesReg(st.MEM, r)) =>
            /\ ReadsAs(st.ID.instruction, "rs", r) => after.rsValue = st.EX.result
            /\ ReadsAs(st.ID.instruction, "rt", r) => after.rtValue = st.EX.result

Slots == {"IF", "ID", "EX", "MEM", "WB"}

\* no fetch occupies two slots
NoSharedInstance(inst) ==
    \A s, t \in Slots : (s # t /\ inst[s] # 0) => inst[s] # inst[t]

\* C2: a step that starts with IF, ID, EX and MEM all occupied leaves in WB
\* the instruction and result that were in MEM, in MEM the instruction that
\* was in EX, in EX the one that was in ID and in ID the one that was in IF;
\* and after any step no fetched instruction instance is in two slots.
C2_StageShift ==
    [][cycle' = cycle + 1 =>
          LET st == pipelineStages
              st2 == pipelineStages'
          IN /\ (st.IF # Null /\ st.ID # Null /\ st.EX # Null /\ st.MEM # Null) =>
                    /\ st2.WB = st.MEM
                    /\ st2.MEM # Null /\ st2.MEM.instruction = st.EX.instruction
                    /\ st2.EX # Null /\ st2.EX.instruction = st.ID.instruction
                    /\ st2.ID # Null /\ st2.ID.instruction = st.IF
                    /\ instance'.WB = instance.MEM /\ instance'.MEM = instance.EX
                    /\ instance'.EX = instance.ID /\ instance'.ID = instance.IF
             /\ NoSharedInstance(instance')]_vars

\* a step has just been taken from a pipeline with IF, ID, EX, MEM occupied
C2_Witness ==
    LET b == hist.before.pipelineStages IN
    /\ Stepped
    /\ b.IF # Null /\ b.ID # Null /\ b.EX # Null /\ b.MEM # Null
    /\ pipelineStages.WB = b.MEM
    /\ pipelineStages.ID.instruction = b.IF

\* integer semantics of the three R-type operations
SeqOp(op, a, b) ==
    CASE op = "add" -> a + b
      [] op = "sub" -> a - b
      [] op = "mul" -> a * b

\* the registers after executing the R-type line in order, on integer registers
SeqR(regs, line) ==
    LET p == line.parts IN
    [regs EXCEPT ![p[2][2]] = SeqOp(p[1][2], regs[p[3][2]], regs[p[4][2]])]

\* the integer the register file holds at index i
IntOf(regs, i) == regs[i][2]

\* C3: a two-instruction program op1 rd1,a,b / op2 rd2,x,y with x or y = rd1,
\* loaded after reset with integer registers: after 6 steps both have
\* written back and reg[rd2] (and reg[rd1] when rd1 # rd2) has the value
\* sequential execution gives.
C3_BackToBack ==
    (Stepped /\ cycle = 6) =>
        LET r0 == [i \in 0..(NumRegisters - 1) |-> IntOf(start.registradores, i)]
            r1 == SeqR(r0, loaded[1])
            r2 == SeqR(r1, loaded[2])
            rd1 == loaded[1].parts[2][2]
            rd2 == loaded[2].parts[2][2]
        IN /\ pipelineStages.WB # Null
           /\ pipelineStages.WB.instruction = instructionCache[4]
           /\ instance.WB = 2
           /\ registradores[rd2] = Num(r2[rd2])
           /\ registradores[rd1] = Num(r2[rd1])

\* sub $s1,$s0,$s1 / mul $s2,$s1,$s1 with $s0 = 3, $s1 = -2, after 6 steps:
\* $s1 = 5 and $s2 = 25, which only the forwarded result of the sub gives
C3_Witness ==
    /\ Stepped /\ cycle = 6
    /\ loaded = <<Ln(RIns("sub", 1, 0, 1)), Ln(RIns("mul", 2, 1, 1))>>
    /\ start.registradores[0] = Num(3) /\ start.registradores[1] = Num(-2)
    /\ registradores[1] = Num(5) /\ registradores[2] = Num(25)

\* the lw of a one-line program, and its effective address on the start registers
LwLine == loaded[1].parts

LwAddress == IntOf(start.registradores, LwLine[3][3][2]) + LwLine[3][2]

\* C4: a single lw rt, off(rs) with reg[rs]+off a multiple of 4 in 0..4092:
\* after 5 steps reg[rt] = memory[(reg[rs]+off)/4] and no other register
\* has changed.
C4_LoadWord ==
    (Stepped /\ cycle = 5 /\ LwAddress % 4 = 0 /\ LwAddress \in 0..4092) =>
        LET rt == LwLine[2][2] IN
        /\ registradores[rt] = memoria.words[LwAddress \div 4]
        /\ \A i \in 0..(NumRegisters - 1) :
               i # rt => registradores[i] = start.registradores[i]

\* lw $s1, 0($s0) with memory[0] = 42 and $s0 = 0 gives $s1 = 42; some lw
\* with a non-zero offset and base has loaded a non-zero word
C4_Witness ==
    /\ Stepped /\ cycle = 5
    /\ LwLine = MemIns("lw", 1, 0, 0)
    /\ start.registradores[0] = Num(0) /\ memoria.words[0] = Num(42)
    /\ registradores[1] = Num(42)

\* C5: in the step in which ID decodes a beq rs, rt, L with reg[rs] = reg[rt],
\* PC becomes 4*k for the index k the loader bound L to, wherever the beq is.
C5_BranchToLabel ==
    [][LET beq == pipelineStages.IF IN
       (/\ cycle' = cycle + 1
        /\ Opcode(beq) = "beq"
        /\ beq.labelName # NoLabel
        /\ registradores'[beq.rs] = registradores'[beq.rt]) =>
            PC' = 4 * FirstPass(loaded, 1, 0, EmptyMap)[beq.labelName]]_vars

\* a beq at an address other than 0, naming the label of the first
\* instruction, has been decoded with equal registers, and PC is 0
C5_Witness ==
    LET beq == hist.before.pipelineStages.IF IN
    /\ Stepped
    /\ Opcode(beq) = "beq" /\ beq.labelName = "top"
    /\ FirstPass(loaded, 1, 0, EmptyMap)["top"] = 0
    /\ registradores[beq.rs] = registradores[beq.rt]
    /\ hist.before.PC > 0
    /\ PC = 0

\* the counter of address a in a table, an absent entry counting as 1
CounterOf(table, a) == IF a \in DOMAIN table THEN table[a] ELSE 1

\* the machine after n calls updateBranchPredictor(a, true)
RECURSIVE TakenTimes(_, _, _)
TakenTimes(m, a, n) ==
    IF n = 0 THEN m ELSE TakenTimes(UpdateBranchPredictor(m, a, TRUE), a, n - 1)

\* C6: predictBranch(a) returns false for an address with no entry; after
\* three consecutive updateBranchPredictor(a, true) the counter is 3 and
\* predictBranch(a) returns true, and further such updates keep both.
C6_StartAndSaturation ==
    \A a \in PredictorAddresses :
        /\ a \notin DOMAIN branchPredictor => ~PredictBranchResult(Machine, a)
        /\ \A n \in 3..5 :
               LET m3 == TakenTimes(Machine, a, n) IN
               /\ m3.branchPredictor[a] = 3
               /\ PredictBranchResult(m3, a)
               /\ PredictBranch(m3, a).branchPredictor[a] = 3
        /\ (hist.op = "predictBranch" /\ hist.arg[1] \notin DOMAIN hist.before.branchPredictor)
               => hist.arg[2] = FALSE
        /\ (hist.op = "updateBranchPredictor" /\ hist.arg[2]
               /\ CounterOf(hist.before.branchPredictor, hist.arg[1]) = 3)
               => branchPredictor[hist.arg[1]] = 3

\* an update with taken = true has just been applied to a counter that was
\* already 3, and the counter is still 3
C6_Witness ==
    /\ hist.op = "updateBranchPredictor" /\ hist.arg[2]
    /\ CounterOf(hist.before.branchPredictor, hist.arg[1]) = 3
    /\ branchPredictor[hist.arg[1]] = 3
    /\ PredictBranchResult(Machine, hist.arg[1])

\* C7: every table entry is in 0..3; updateBranchPredictor(a, t) moves the
\* counter of a (1 if absent) up by one when t, staying at 3, and down by
\* one otherwise, staying at 0; predictBranch(a) returns true exactly when
\* the counter of a (1 if absent) is at least 2.
C7_SaturatingCounter ==
    [][LET a == hist'.arg[1]
           old == CounterOf(branchPredictor, a)
       IN /\ \A b \in DOMAIN branchPredictor' : branchPredictor'[b] \in 0..3
          /\ hist'.op = "updateBranchPredictor" =>
                /\ a \in DOMAIN branchPredictor'
                /\ branchPredictor'[a] =
                       IF hist'.arg[2] THEN (IF old = 3 THEN 3 ELSE old + 1)
                       ELSE (IF old = 0 THEN 0 ELSE old - 1)
          /\ hist'.op = "predictBranch" =>
                /\ hist'.arg[2] = (old >= 2)
                /\ CounterOf(branchPredictor', a) = old]_vars

\* a not-taken update has just moved a counter from 0 to 0, while another
\* address holds 3
C7_Witness ==
    /\ hist.op = "updateBranchPredictor" /\ ~hist.arg[2]
    /\ CounterOf(hist.before.branchPredictor, hist.arg[1]) = 0
    /\ branchPredictor[hist.arg[1]] = 0
    /\ \E b \in DOMAIN branchPredictor : branchPredictor[b] = 3

\* C8: predictBranch(a) and updateBranchPredictor(a, t) leave the entry of
\* every other address as it was (present with the same counter, or absent),
\* and no operation but reset removes an entry.
C8_PredictorFrame ==
    [][/\ hist'.op \in {"predictBranch", "updateBranchPredictor"} =>
             \A b \in (DOMAIN branchPredictor \cup DOMAIN branchPredictor') \ {hist'.arg[1]} :
                 /\ b \in DOMAIN branchPredictor /\ b \in DOMAIN branchPredictor'
                 /\ branchPredictor'[b] = branchPredictor[b]
       /\ hist'.op # "reset" => DOMAIN branchPredictor \subseteq DOMAIN branchPredictor']_vars

\* loadProgram or a step has just run on a table with two entries and left
\* both, one of them changed by an earlier update
C8_Witness ==
    /\ hist.op \in {"loadProgram", "executeCycle"}
    /\ DOMAIN hist.before.branchPredictor = PredictorAddresses
    /\ branchPredictor = hist.before.branchPredictor
    /\ \E a, b \in PredictorAddresses : branchPredictor[a] = 3 /\ branchPredictor[b] = 1

\* the fields reset() assigns, as the constructor leaves them
ResetFields(m) ==
    [registradores |-> m.registradores, memoria |-> m.memoria,
     pipelineStages |-> m.pipelineStages, PC |-> m.PC,
     branchPredictor |-> m.branchPredictor,
     instructionCache |-> m.instructionCache,
     cycle |-> m.cycle, stalled |-> m.stalled,
     isRunning |-> m.isRunning, runInterval |-> m.runInterval, timers |-> m.timers]

\* C9: from every reachable state reset() gives the constructor's state: 32
\* registers 0, 1024 memory words 0 (and nothing else in the array), five
\* empty slots, PC 0, empty predictor table, empty instruction store, cycle
\* 0, stalled false, not running and no timer active (the run speed is not
\* among them); a second reset changes nothing.
C9_Reset ==
    LET m1 == Reset(Machine) IN
    /\ ResetFields(m1) = ResetFields(Constructed)
    /\ DOMAIN m1.registradores = 0..31 /\ DOMAIN m1.memoria.words = 0..1023
    /\ Reset(m1) = m1
    /\ hist.op = "reset" => ResetFields(Machine) = ResetFields(Constructed)

\* reset() has just been applied to a running simulator with a program,
\* occupied slots, a predictor entry, an injected register and an injected
\* memory property, after the stall flag was set
C9_Witness ==
    /\ hist.op = "reset"
    /\ hist.before.isRunning
    /\ hist.before.stalled
    /\ hist.before.pipelineStages.ID # Null
    /\ hist.before.branchPredictor # EmptyMap
    /\ hist.before.instructionCache # EmptyMap
    /\ hist.before.PC # 0
    /\ runSpeed # DefaultRunSpeed
    /\ ResetFields(Machine) = ResetFields(Constructed)

\* C10: loadProgram leaves in the instruction store exactly what loading
\* the same text into a new simulator gives, sets PC to 0 and leaves all
\* registers and all of memory as they were.
C10_LoadSideEffects ==
    [][hist'.op = "loadProgram" =>
          /\ instructionCache' = LoadProgram(Constructed, loaded').instructionCache
          /\ PC' = 0
          /\ registradores' = registradores
          /\ memoria' = memoria]_vars

\* the one-instruction program has just been loaded over the three-
\* instruction program, with PC not 0, an injected register and injected
\* memory: the entries at 4 and 8 are gone
C10_Witness ==
    /\ hist.op = "loadProgram"
    /\ DOMAIN hist.before.instructionCache = {0, 4, 8}
    /\ DOMAIN instructionCache = {0}
    /\ hist.before.PC # 0 /\ PC = 0
    /\ registradores[2] = Num(5)
    /\ memoria.extra # EmptyMap

-----------------------------------------------------------------------------
\* C11: in both variants, after any loadProgram every key of the instruction
\* store is a non-negative multiple of 4, and a step leaves the store as it
\* found it.
C11_StoreAlignment ==
    /\ \A k \in DOMAIN instructionCache : k \in Nat /\ k % 4 = 0
    /\ hist.op = "executeCycle" => instructionCache = hist.before.instructionCache

\* a program with a rejected second line and an accepted third line has been
\* loaded and stepped
C11_Witness ==
    /\ hist.op = "executeCycle"
    /\ cycle = 2
    /\ DOMAIN instructionCache = {0, 8}

-----------------------------------------------------------------------------
\* the instruction lines of a program text, in order: the lines that have
\* text other than a label and a comment
InstructionLines(lines) == SelectSeq(lines, LAMBDA line : line.parts # <<>>)

\* the instruction a line is accepted as under the labels of its program, or
\* Null when the parser rejects it
Accepted(lines, line) == ParseInstruction(line.parts, FirstPass(lines, 1, 0, EmptyMap))

\* C12: in src/pipeline.js, when the k-th instruction line (from 0) of the
\* loaded text is rejected, the store has no entry at 4 * k, and every
\* accepted instruction line j is stored at 4 * j all the same: the store
\* has exactly the accepted lines, each at four times its own position.
C12_RejectedLineLeavesHole ==
    variant = "A" =>
        LET ins == InstructionLines(loaded) IN
        /\ DOMAIN instructionCache \subseteq {4 * k : k \in 0..(Len(ins) - 1)}
        /\ \A k \in 0..(Len(ins) - 1) :
               LET instr == Accepted(loaded, ins[k + 1]) IN
               IF instr = Null
               THEN 4 * k \notin DOMAIN instructionCache
               ELSE /\ 4 * k \in DOMAIN instructionCache
                    /\ instructionCache[4 * k] = instr

\* a text whose second instruction line is rejected and whose first and
\* third are accepted has just been loaded
C12_Witness ==
    /\ variant = "A"
    /\ hist.op = "loadProgram"
    /\ LET ins == InstructionLines(loaded) IN
       /\ Len(ins) = 3
       /\ Accepted(loaded, ins[1]) # Null
       /\ Accepted(loaded, ins[2]) = Null
       /\ Accepted(loaded, ins[3]) # Null
    /\ DOMAIN instructionCache = {0, 8}

-----------------------------------------------------------------------------
\* the labels a program text defines
LabelsOf(lines) == {lines[i].label : i \in DOMAIN lines} \ {NoLabel}

\* the line that defines label l (the last one, when several lines do)
DefinitionOf(lines, l) ==
    CHOOSE i \in DOMAIN lines :
        lines[i].label = l /\ \A j \in DOMAIN lines : j > i => lines[j].label # l

\* the number of instruction lines before line i
LinesBefore(lines, i) == Len(InstructionLines(SubSeq(lines, 1, i - 1)))

\* the label a beq or j line names as its target, NoLabel when it names none
TargetLabel(lines, line) ==
    LET parts == line.parts
        last == parts[Len(parts)]
    IN IF /\ parts[1] \in {Word("beq"), Word("j")}
          /\ last[1] = "word" /\ last[2] \in LabelsOf(lines)
       THEN last[2] ELSE NoLabel

\* the index an instruction of the store carries as its branch or jump target
TargetIndex(instr) == IF instr.opcode = "beq" THEN instr.offset ELSE instr.target

\* C13: in src/pipeline.js, every use of a label in a beq or j, before or
\* after the label's definition, is stored with the number of instruction
\* lines before that definition as its index; the first instruction line at
\* or after the definition is stored at four times that number; blank,
\* comment-only and label-only lines take no address.
C13_LabelResolution ==
    variant = "A" =>
        LET ins == InstructionLines(loaded) IN
        /\ \A k \in 0..(Len(ins) - 1) :
               LET l == TargetLabel(loaded, ins[k + 1]) IN
               (l # NoLabel /\ 4 * k \in DOMAIN instructionCache) =>
                   /\ instructionCache[4 * k].labelName = l
                   /\ TargetIndex(instructionCache[4 * k]) =
                          LinesBefore(loaded, DefinitionOf(loaded, l))
        /\ \A l \in LabelsOf(loaded) :
               LET i == DefinitionOf(loaded, l)
                   after == {j \in i..Len(loaded) : loaded[j].parts # <<>>}
               IN after # {} =>
                      LET j == CHOOSE x \in after : \A y \in after : x <= y
                          instr == Accepted(loaded, loaded[j])
                      IN instr # Null =>
                             /\ 4 * LinesBefore(loaded, i) \in DOMAIN instructionCache
                             /\ instructionCache[4 * LinesBefore(loaded, i)] = instr

\* "j top", a comment line and "top: nop" have just been loaded: the jump
\* carries index 1 and the nop is stored at address 4
C13_Witness ==
    /\ variant = "A"
    /\ hist.op = "loadProgram"
    /\ loaded = <<Ln(JIns(Word("top"))), CommentLine, Lbl("top", NopIns)>>
    /\ instructionCache[0].labelName = "top"
    /\ instructionCache[0].target = 1
    /\ instructionCache[4] = NopObject

-----------------------------------------------------------------------------
\* the byte addresses of the 1024 words
WordAddresses == {4 * i : i \in 0..(MemoryWords - 1)}

\* the registers and memory on which the MEM stage of the coming step runs:
\* those that forwarding and the WB stage leave
AtMEM(m) == ExecuteWB(ExecuteForwarding(m))

\* C14: memory stays the array of 1024 words: a file's memoria entries at
\* byte addresses that are unaligned or outside 0..4092 leave no entry
\* outside the word slots, and a sw whose effective address is unaligned or
\* outside 0..4092 leaves memory as it was.  The code stores at key
\* address / 4 whatever the address is, so this fails: sw $s1, 2($s0) adds
\* the property 0.5, sw $s1, 4096($s0) adds index 1024.
C14_MemoryFixedArray ==
    /\ hist.op = "loadFile" => memoria.extra = EmptyMap
    /\ LET m == AtMEM(Machine)
           ex == m.pipelineStages.EX
       IN (/\ ex # Null
           /\ Opcode(ex.instruction) = "sw"
           /\ ~(/\ IsNum(EffectiveAddress(m, ex.instruction))
                /\ EffectiveAddress(m, ex.instruction)[2] \in WordAddresses))
          => ExecuteMEM(m).memoria = m.memoria

-----------------------------------------------------------------------------
\* C15: from integer registers and a memory of integer words only, every
\* state reached by stepping a loaded program has a register file of
\* exactly the indices 0..31, each holding an integer.  A lw whose effective
\* address is unaligned or outside 0..4092 reads memoria[address / 4], which
\* is undefined, and executeWB writes that into the register, so this fails:
\* after lw $s2, 2($s0) the register $s2 is undefined.
C15_RegisterFileIntegers ==
    start.wordsOnly =>
        /\ DOMAIN registradores = 0..(NumRegisters - 1)
        /\ \A i \in DOMAIN registradores : IsNum(registradores[i])

-----------------------------------------------------------------------------
\* the machine on which the IF stage of the coming step runs: the one that
\* forwarding, the hazard check and the four later stages leave
AtIF(m) ==
    LET forwarded == ExecuteForwarding(m)
        gated == [forwarded EXCEPT !.stalled = DetectHazards(forwarded)]
    IN ExecuteID(ExecuteEX(ExecuteMEM(ExecuteWB(gated))))

\* C16: in a step that is not stalled and in which the store has no entry
\* at the PC the fetch reads, the fetch stage leaves IF empty and changes no
\* register, no memory word and not the PC, and the step completes with the
\* cycle counter one higher.
C16_FetchToleratesHoles ==
    LET m == AtIF(Machine)
        after == ExecuteIF(m)
        stepped == ExecuteCycle(Machine)
    IN /\ (~m.stalled /\ m.PC \notin DOMAIN m.instructionCache) =>
              /\ after.pipelineStages.IF = Null
              /\ after.registradores = m.registradores
              /\ after.memoria = m.memoria
              /\ after.PC = m.PC
              /\ stepped = [after EXCEPT !.cycle = cycle + 1]
       /\ (Stepped /\ ~stalled /\ PC \notin DOMAIN instructionCache) =>
              pipelineStages.IF = Null

\* a step that was not stalled has just fetched at the address of a rejected
\* line, below the address of a stored instruction
C16_Witness ==
    /\ Stepped
    /\ ~stalled
    /\ PC \notin DOMAIN instructionCache
    /\ \E k \in DOMAIN instructionCache : k > PC
    /\ pipelineStages.IF = Null
    /\ pipelineStages.ID # Null

-----------------------------------------------------------------------------
\* C17: executeCycle adds exactly 1 to cycle, and cycle has no effect on the
\* step: the machine that differs from the current one only in cycle steps
\* to a machine that differs from the current one's successor only in cycle.
C17_CycleCounter ==
    LET stepped == ExecuteCycle(Machine) IN
    /\ stepped.cycle = cycle + 1
    /\ \A c \in 0..MaxRunCycle :
           ExecuteCycle([Machine EXCEPT !.cycle = c]) = [stepped EXCEPT !.cycle = c + 1]

\* a program loaded after one idle step has been stepped once: the slots are
\* those of a run that began at cycle 0, the cycle counter is not
C17_Witness ==
    /\ Stepped
    /\ cycle = 2
    /\ fetched = 1
    /\ pipelineStages.IF # Null

-----------------------------------------------------------------------------
\* detectStructuralHazard() of the variant that runs
StructuralHazardDetected ==
    IF variant = "A" THEN DetectStructuralHazard(Machine)
    ELSE DetectStructuralHazardB(Machine)

\* the slot holds an instruction with one of the opcodes
Holds(slot, opcodes) == slot # Null /\ Opcode(slot.instruction) \in opcodes

\* C18: in both variants detectStructuralHazard returns true exactly when
\* the MEM slot and the IF slot both hold a lw or a sw, or the EX slot and
\* the ID slot both hold a mul.  In src/unnamed/part_000 the check looks at
\* the opcode of the MEM slot only and has no mul case, so this fails there:
\* with lw in MEM and add in IF it returns true, with mul in EX and mul in
\* ID it returns false.
C18_StructuralHazard ==
    LET st == pipelineStages IN
    StructuralHazardDetected <=>
        \/ /\ Holds(st.MEM, {"lw", "sw"})
           /\ st.IF # Null /\ Opcode(st.IF) \in {"lw", "sw"}
        \/ /\ Holds(st.EX, {"mul"})
           /\ Holds(st.ID, {"mul"})

-----------------------------------------------------------------------------
\* the instruction names register r as its rs or as its rt
NamesSource(instr, r) ==
    \/ "rs" \in DOMAIN instr /\ instr.rs = r
    \/ "rt" \in DOMAIN instr /\ instr.rt = r

\* C19: detectDataHazard returns true exactly when ID and EX are both
\* occupied and either the EX instruction is R-type and the ID instruction's
\* rs or rt is the EX instruction's rd, or the EX instruction is lw and the
\* ID instruction's rs or rt is the lw's rt; so it returns false whenever ID
\* or EX is empty.  It is a function of the slots alone: DetectDataHazard
\* yields a value and no machine, as the method has no assignment.
C19_DataHazard ==
    LET st == pipelineStages IN
    /\ DetectDataHazard(Machine) <=>
           /\ st.ID # Null /\ st.EX # Null
           /\ \/ /\ st.EX.instruction.type = "R_TYPE"
                 /\ NamesSource(st.ID.instruction, st.EX.instruction.rd)
              \/ /\ st.EX.instruction.opcode = "lw"
                 /\ NamesSource(st.ID.instruction, st.EX.instruction.rt)
    /\ (st.ID = Null \/ st.EX = Null) => ~DetectDataHazard(Machine)

\* EX holds a lw and ID holds an instruction whose rs is the lw's rt, and
\* detectDataHazard returns true
C19_Witness ==
    LET st == pipelineStages IN
    /\ st.ID # Null /\ st.EX # Null
    /\ Opcode(st.EX.instruction) = "lw"
    /\ Field(st.ID.instruction, "rs") = Num(st.EX.instruction.rt)
    /\ Field(st.ID.instruction, "rt") # Num(st.EX.instruction.rt)
    /\ DetectDataHazard(Machine)

-----------------------------------------------------------------------------
\* C20: in every step that starts with a beq or a j in the ID slot, taken or
\* not, the hazard detector returns true, stalled is set, and the fetch of
\* that step (the step after the one that decoded the instruction) is
\* suppressed: nothing is fetched and IF is left empty.
C20_ControlHazard ==
    [][Holds(pipelineStages.ID, {"beq", "j"}) =>
           /\ DetectHazards(ExecuteForwarding(Machine))
           /\ stalled'
           /\ fetched' = fetched
           /\ pipelineStages'.IF = Null]_vars

\* a step has begun with a beq in ID that was decoded with unequal registers;
\* it was stalled and left IF empty although the store has an instruction at
\* PC
C20_Witness ==
    LET id == hist.before.pipelineStages.ID IN
    /\ Stepped
    /\ Holds(id, {"beq"})
    /\ id.rsValue # id.rtValue
    /\ stalled
    /\ pipelineStages.IF = Null
    /\ PC \in DOMAIN instructionCache

-----------------------------------------------------------------------------
-----------------------------------------------------------------------------
\* the register file with index i set to value v and nothing else changed
RegistersWith(regs, i, v) == [k \in DOMAIN regs \cup {i} |-> IF k = i THEN v ELSE regs[k]]

\* C22: in every step the register file changes in at most one index: with
\* an R-type instruction in MEM at step start only reg[rd] is set to its
\* result, with a lw only reg[rt], and with MEM empty or holding sw, beq, j
\* or nop the register file is unchanged; afterwards WB holds the former MEM
\* payload, and MEM is empty when the memory stage starts, which refills it
\* from EX.
C22_WriteBack ==
    [][cycle' = cycle + 1 =>
           LET mem == pipelineStages.MEM IN
           /\ Cardinality({i \in DOMAIN registradores' :
                               i \notin DOMAIN registradores
                               \/ registradores'[i] # registradores[i]}) <= 1
           /\ registradores' =
                  IF mem # Null /\ Type(mem.instruction) = "R_TYPE"
                  THEN RegistersWith(registradores, mem.instruction.rd, mem.result)
                  ELSE IF mem # Null /\ Opcode(mem.instruction) = "lw"
                  THEN RegistersWith(registradores, mem.instruction.rt, mem.result)
                  ELSE registradores
           /\ mem # Null =>
                  /\ pipelineStages'.WB = mem
                  /\ instance'.WB = instance.MEM
           /\ AtMEM(Machine).pipelineStages.MEM = Null
           /\ pipelineStages.EX = Null => pipelineStages'.MEM = Null]_vars

\* a step that began with a lw in MEM has written the loaded word 42 into
\* the lw's rt, which held another value when the run began, and WB holds
\* the lw
C22_Witness ==
    LET was == hist.before.pipelineStages.MEM IN
    /\ Stepped
    /\ was # Null
    /\ Opcode(was.instruction) = "lw"
    /\ was.result = Num(42)
    /\ start.registradores[was.instruction.rt] # Num(42)
    /\ registradores[was.instruction.rt] = Num(42)
    /\ pipelineStages.WB = was

-----------------------------------------------------------------------------
\* C23: a step changes memory only when EX holds a sw at step start, and
\* then only the word at index (reg[rs] + offset) / 4, which is set to
\* reg[rt], the registers being those the write-back of the same step
\* leaves; for every other EX content memory is unchanged, and for every
\* opcode other than lw the EX payload reaches MEM with its result unchanged.
\* (Stores to addresses that are no word address are the subject of C14.)
C23_MemoryStage ==
    [][cycle' = cycle + 1 =>
           LET ex == pipelineStages.EX IN
           /\ IF ex # Null /\ Opcode(ex.instruction) = "sw"
              THEN LET address == IntOf(registradores', ex.instruction.rs)
                                     + ex.instruction.offset
                   IN address \in WordAddresses =>
                          /\ memoria'.words =
                                 [memoria.words EXCEPT ![address \div 4] =
                                      registradores'[ex.instruction.rt]]
                          /\ memoria'.extra = memoria.extra
              ELSE memoria' = memoria
           /\ (ex # Null /\ Opcode(ex.instruction) # "lw") =>
                  pipelineStages'.MEM = ex]_vars

\* a step began with a sw in EX and, in MEM, the mul that writes the sw's rt:
\* the word at the sw's address holds the product, which is not the value
\* the register had when the run began
C23_Witness ==
    LET was == hist.before.pipelineStages IN
    /\ Stepped
    /\ was.EX # Null /\ was.MEM # Null
    /\ Opcode(was.EX.instruction) = "sw"
    /\ Opcode(was.MEM.instruction) = "mul"
    /\ was.MEM.instruction.rd = was.EX.instruction.rt
    /\ memoria.words[1] = was.MEM.result
    /\ memoria.words[1] # start.registradores[was.EX.instruction.rt]
    /\ pipelineStages.MEM = was.EX

-----------------------------------------------------------------------------
-----------------------------------------------------------------------------
\* C25: whenever the ID stage decodes a beq, taken or not, or a j, the IF
\* slot is squashed to a NOP and that NOP is what moves into the ID slot.
\* executeID keeps the decoded instruction in a local before it writes the
\* NOP into IF (which it does for a taken beq and a j only), fills ID from
\* that local and then sets IF to null, so this fails: after the step ID
\* holds the beq or the j itself and no NOP has entered the pipeline.
C25_SquashOnControlFlow ==
    LET was == hist.before.pipelineStages.IF IN
    (Stepped /\ was # Null /\ Opcode(was) \in {"beq", "j"}) =>
        /\ pipelineStages.ID # Null
        /\ Opcode(pipelineStages.ID.instruction) = "nop"

-----------------------------------------------------------------------------
\* the machine of part_000 on which the ID stage of the coming step runs
AtIDB(m) ==
    LET forwarded == ExecuteForwarding(m)
        gated == [forwarded EXCEPT !.stalled = DetectHazardsB(forwarded)]
    IN ExecuteEX(ExecuteMEM(ExecuteWB(gated)))

\* C26: in src/unnamed/part_000, when the ID stage decodes a beq with PC = A,
\* the prediction is the one A's counter gives (an absent counter being
\* weakly not taken) and the counter is then moved by the outcome
\* reg[rs] = reg[rt]; when prediction and outcome differ, IF holds a NOP, ID
\* holds a NOP record with both cached values 0, and PC is A + 4 * offset
\* for a taken branch and A + 4 otherwise; when they agree, PC is A + 4 and
\* the beq is in ID.
C26_PredictAndVerify ==
    LET m == AtIDB(Machine)
        beq == m.pipelineStages.IF
        A == m.PC
        after == ExecuteIDB(m)
    IN (variant = "B" /\ beq # Null /\ Opcode(beq) = "beq") =>
           LET counter == CounterOf(m.branchPredictor, A)
               predictedTaken == counter >= WEAKLY_TAKEN
               actualTaken == m.registradores[beq.rs] = m.registradores[beq.rt]
           IN /\ A \in DOMAIN after.branchPredictor
              /\ after.branchPredictor[A] =
                     IF actualTaken
                     THEN (IF counter = STRONGLY_TAKEN THEN counter ELSE counter + 1)
                     ELSE (IF counter = STRONGLY_NOT_TAKEN THEN counter ELSE counter - 1)
              /\ \A a \in DOMAIN m.branchPredictor \ {A} :
                     after.branchPredictor[a] = m.branchPredictor[a]
              /\ IF predictedTaken # actualTaken
                 THEN /\ after.pipelineStages.IF = NopObject
                      /\ after.pipelineStages.ID =
                             [instruction |-> NopObject,
                              rsValue |-> Num(0), rtValue |-> Num(0)]
                      /\ after.PC = IF actualTaken THEN A + 4 * beq.offset ELSE A + 4
                 ELSE /\ after.PC = A + 4
                      /\ after.pipelineStages.ID.instruction = beq
                      /\ after.pipelineStages.IF = Null

\* in part_000 a step has decoded a beq at an address predicted taken whose
\* registers differ: the counter went from 2 to 1, PC moved on by 4 and ID
\* holds the NOP record
C26_Witness ==
    LET beq == hist.before.pipelineStages.IF
        A == hist.before.PC
    IN /\ variant = "B"
       /\ Stepped
       /\ beq # Null /\ Opcode(beq) = "beq"
       /\ A \in DOMAIN hist.before.branchPredictor
       /\ hist.before.branchPredictor[A] = WEAKLY_TAKEN
       /\ branchPredictor[A] = WEAKLY_NOT_TAKEN
       /\ registradores[beq.rs] # registradores[beq.rt]
       /\ pipelineStages.ID.instruction = NopObject
       /\ PC = A + 4

-----------------------------------------------------------------------------
\* C27: in src/pipeline.js, every time the ID stage decodes a beq the
\* predictor table entry of the branch's address is created if absent and
\* moved by the outcome, so the table is not empty once a beq has been
\* decoded.  executeID of src/pipeline.js calls neither predictBranch nor
\* updateBranchPredictor, so this fails: the table stays empty.
C27_PredictorUpdatedByDecode ==
    LET beq == hist.before.pipelineStages.IF
        A == hist.before.PC
    IN (Stepped /\ beq # Null /\ Opcode(beq) = "beq") =>
           /\ A \in DOMAIN branchPredictor
           /\ branchPredictor[A] =
                  LET counter == CounterOf(hist.before.branchPredictor, A) IN
                  IF registradores[beq.rs] = registradores[beq.rt]
                  THEN (IF counter = STRONGLY_TAKEN THEN counter ELSE counter + 1)
                  ELSE (IF counter = STRONGLY_NOT_TAKEN THEN counter ELSE counter - 1)

-----------------------------------------------------------------------------
\* C28: when a lw is immediately followed by an instruction that reads the
\* lw's rt, the pipeline stalls and the reader's EX computation uses the
\* word the lw loads.  The stall only suppresses the fetch: in the step that
\* starts with the lw in EX and the reader in ID, the lw loads its word in
\* the MEM stage while the EX stage computes from the values the reader
\* cached at decode, so this fails: after lw $s1, 0($s0) with 42 at address
\* 0, add $s7, $s1, $s2 computes from the old $s1.
C28_LoadUse ==
    LET st == pipelineStages
        stepped == ExecuteCycle(Machine)
    IN (/\ st.ID # Null /\ st.EX # Null
        /\ Opcode(st.EX.instruction) = "lw"
        /\ instance.ID = instance.EX + 1
        /\ \/ ReadsAs(st.ID.instruction, "rs", st.EX.instruction.rt)
           \/ ReadsAs(st.ID.instruction, "rt", st.EX.instruction.rt)) =>
           LET reader == st.ID.instruction
               value == stepped.pipelineStages.MEM.result
               rsUsed == IF ReadsAs(reader, "rs", st.EX.instruction.rt)
                         THEN value ELSE st.ID.rsValue
               rtUsed == IF ReadsAs(reader, "rt", st.EX.instruction.rt)
                         THEN value ELSE st.ID.rtValue
           IN /\ stepped.stalled
              /\ stepped.pipelineStages.EX.instruction = reader
              /\ stepped.pipelineStages.EX.result = ExResult(Opcode(reader), rsUsed, rtUsed)

-----------------------------------------------------------------------------
\* C29: whenever, at the start of a step, MEM holds an R-type instruction
\* with destination rd and the rs (or rt) of the instruction in ID equals
\* rd, executeForwarding leaves the result of MEM in the cached rs-value (or
\* rt-value) of ID, whatever EX holds, an empty EX included.
\* executeForwarding returns before both blocks when EX is empty, so this
\* fails in the step that starts with a bubble in EX.
C29_MemForwarding ==
    LET st == pipelineStages
        after == ExecuteForwarding(Machine).pipelineStages.ID
    IN \A r \in 0..(NumRegisters - 1) :
           (st.ID # Null /\ WritesReg(st.MEM, r)) =>
               /\ Field(st.ID.instruction, "rs") = Num(r) => after.rsValue = st.MEM.result
               /\ Field(st.ID.instruction, "rt") = Num(r) => after.rtValue = st.MEM.result

-----------------------------------------------------------------------------
\* every instruction of the program has been decoded and written back:
\* IF, ID, EX and MEM are empty (the WB slot keeps the last instruction)
Drained ==
    /\ Stepped
    /\ PC = 4 * Len(loaded)
    /\ \A slot \in Slots \ {"WB"} : pipelineStages[slot] = Null

\* the integer registers after executing the first n lines one at a time
RECURSIVE SeqRun(_, _, _)
SeqRun(regs, lines, n) ==
    IF n = 0 THEN regs ELSE SeqR(SeqRun(regs, lines, n - 1), lines[n])

\* C30: for every program made only of add, sub and mul, loaded after reset
\* with integer initial registers, the register file of the drained pipeline
\* is the one obtained by executing the lines one at a time in program
\* order.  The MEM block of executeForwarding overrides the EX block, and
\* nothing is forwarded past a bubble, so this fails: on add $s1,$s2,$s3 /
\* sub $s1,$s4,$s5 / mul $s6,$s1,$s1 the mul squares the result of the add.
C30_SequentialEquivalence ==
    Drained =>
        LET r0 == [i \in 0..(NumRegisters - 1) |-> IntOf(start.registradores, i)]
            seq == SeqRun(r0, loaded, Len(loaded))
        IN \A i \in 0..(NumRegisters - 1) : registradores[i] = Num(seq[i])

-----------------------------------------------------------------------------
\* the decision executeID has just made for the beq now in ID: it compared
\* the registers as they are after the write-back of the same step
DecidedTaken ==
    LET beq == pipelineStages.ID.instruction IN
    StrictEq(OrZero(RegGet(registradores, Field(beq, "rs"))),
             OrZero(RegGet(registradores, Field(beq, "rt"))))

\* C31: for every decoded beq, the decision taken in the ID stage from the
\* register file is the boolean the EX stage computes for the same beq in
\* the following step.  executeForwarding runs between the two and replaces
\* the cached operands of the beq by the result of an R-type instruction in
\* EX or MEM, so this fails: after add $s1, $s1, $s2 the beq $s1, $s2 is
\* decided on the old $s1 and computed on the new one.
C31_BranchDecisionConsistency ==
    (/\ Stepped
     /\ hist.before.pipelineStages.IF # Null
     /\ Opcode(hist.before.pipelineStages.IF) = "beq") =>
        ExecuteCycle(Machine).pipelineStages.EX.result = Bool(DecidedTaken)

-----------------------------------------------------------------------------
\* the slot an instruction moves to in a step
NextSlot == [IF |-> "ID", ID |-> "EX", EX |-> "MEM", MEM |-> "WB"]

-----------------------------------------------------------------------------
\* the number of instructions stored at 0, 4, 8, ... before the first
\* address with no stored instruction
HoleIndex(cache) ==
    CHOOSE k \in 0..Cardinality(DOMAIN cache) :
        /\ 4 * k \notin DOMAIN cache
        /\ \A j \in 0..(k - 1) : 4 * j \in DOMAIN cache

\* C33: for a program without beq or j, loaded after reset, the k-th fetch
\* brings the instruction stored at 4 * (k - 1): a step fetches nothing or
\* the next stored instruction in address order, nothing at or beyond the
\* first address without an instruction is fetched, and when IF, ID, EX and
\* MEM are empty every instruction before that address has been fetched.
C33_FetchOrder ==
    [][cycle' = cycle + 1 =>
          LET hole == HoleIndex(instructionCache)
              st2 == pipelineStages'
          IN /\ fetched' \in {fetched, fetched + 1}
             /\ fetched' = fetched + 1 =>
                    /\ fetched < hole
                    /\ st2.IF = instructionCache[4 * fetched]
                    /\ instance'.IF = fetched'
             /\ fetched' = fetched => st2.IF = Null
             /\ (\A slot \in DOMAIN NextSlot : st2[slot] = Null) => fetched' = hole]_vars

\* a fetch suppressed by a hazard has been followed by the fetch of the
\* fourth instruction
C33_Witness ==
    /\ Stepped /\ fetched = 4 /\ instance.IF = 4
    /\ pipelineStages.IF = instructionCache[12]
    /\ hist.before.stalled /\ hist.before.pipelineStages.IF = Null

-----------------------------------------------------------------------------
\* IF, ID, EX and MEM are empty in machine m
Emptied(m) == \A slot \in DOMAIN NextSlot : m.pipelineStages[slot] = Null

\* the state stepping arrives at: IF, ID, EX and MEM are empty and no
\* instruction is stored at PC
Quiescent == Emptied(Machine) /\ PC \notin DOMAIN instructionCache

\* four steps from the machine leave IF, ID, EX and MEM empty
EmptiedInFour ==
    \A m1 \in {ExecuteCycle(Machine)} : \A m2 \in {ExecuteCycle(m1)} :
        \A m3 \in {ExecuteCycle(m2)} : \A m4 \in {ExecuteCycle(m3)} : Emptied(m4)

\* C34: for every program without beq or j, stepping from reset and load
\* eventually empties IF, ID, EX and MEM (after a step they are only all
\* empty where no instruction is stored at PC); from then on a step changes
\* nothing but the cycle counter; and once IF is empty and no instruction is
\* stored at PC, four steps are enough to get there.
C34_DrainAndQuiescence ==
    /\ <>Quiescent
    /\ []((Stepped /\ Emptied(Machine)) => Quiescent)
    /\ []((pipelineStages.IF = Null /\ PC \notin DOMAIN instructionCache) =>
              EmptiedInFour)
    /\ [][(cycle' = cycle + 1 /\ Quiescent) =>
              /\ PC' = PC /\ registradores' = registradores /\ memoria' = memoria
              /\ pipelineStages' = pipelineStages /\ stalled' = stalled
              /\ Quiescent']_vars

\* four instructions have been fetched and written back, and a step has
\* been taken from the emptied pipeline
C34_Witness ==
    /\ Stepped /\ Quiescent /\ fetched = 4 /\ instance.WB = 4
    /\ Emptied(hist.before) /\ hist.before.PC = PC
    /\ registradores # start.registradores

-----------------------------------------------------------------------------
\* C35: in both variants, in every state reached from reset by a load and
\* steps, on programs whose branch offsets and jump targets are integers,
\* PC is a multiple of 4.
C35_PCAlignment == PC % 4 = 0

\* part_000 has just redirected PC from the beq at address 4 to address
\* 4 + 4 * 2, and src/pipeline.js from a j to address 4 * 1
C35_Witness ==
    LET b == hist.before IN
    /\ Stepped /\ b.pipelineStages.IF # Null
    /\ \/ variant = "B" /\ Opcode(b.pipelineStages.IF) = "beq" /\ b.PC = 4 /\ PC = 12
       \/ variant = "A" /\ Opcode(b.pipelineStages.IF) = "j" /\ b.PC = 8 /\ PC = 4

-----------------------------------------------------------------------------
-----------------------------------------------------------------------------
\* the register write of the instruction in the WB slot is in the registers
WrittenBack(m) ==
    LET wb == m.pipelineStages.WB IN
    /\ wb # Null
    /\ Type(wb.instruction) = "R_TYPE" => m.registradores[wb.instruction.rd] = wb.result
    /\ Opcode(wb.instruction) = "lw" => m.registradores[wb.instruction.rt] = wb.result

\* C37: when a lw or sw performs its memory stage, every instruction
\* fetched before it has written back: none of them is left in IF, ID, EX
\* or MEM, the one fetched just before it is in WB with its register write
\* applied (by the write-back of the same step when it was in MEM at step
\* start), and the address register and the stored register are read from
\* the registers that write-back leaves.
C37_MemorySeesCommitted ==
    LET ex == pipelineStages.EX
        k == instance.EX
        at == AtMEM(Machine)
        stepped == ExecuteCycle(Machine)
    IN (ex # Null /\ IsMemOp(ex.instruction)) =>
           /\ \A slot \in {"IF", "ID", "MEM"} :
                  at.instance[slot] = 0 \/ at.instance[slot] > k
           /\ at.instance.EX = k
           /\ k > 1 => (at.instance.WB = k - 1 /\ WrittenBack(at))
           /\ stepped.pipelineStages.MEM # Null
           /\ Opcode(ex.instruction) = "lw" =>
                  stepped.pipelineStages.MEM.result =
                      ArrayGet(memoria, Div4(EffectiveAddress(at, ex.instruction)))
           /\ Opcode(ex.instruction) = "sw" =>
                  stepped.memoria =
                      ArraySet(memoria, Div4(EffectiveAddress(at, ex.instruction)),
                               RegGet(at.registradores, Field(ex.instruction, "rt")))

\* a sw, fetched third, has stored the register that the instruction
\* fetched second wrote in the same step, after the first had written too
C37_Witness ==
    LET was == hist.before.pipelineStages IN
    /\ Stepped /\ instance.MEM = 3 /\ instance.WB = 2
    /\ Opcode(pipelineStages.MEM.instruction) = "sw"
    /\ was.MEM = pipelineStages.WB
    /\ WritesReg(pipelineStages.WB, pipelineStages.MEM.instruction.rt)
    /\ memoria.words[1] = pipelineStages.WB.result
    /\ memoria.words[1] # Num(7)
    /\ registradores[1] # start.registradores[1]

-----------------------------------------------------------------------------
\* the instruction is one of the program loaded now
InStore(instruction) == \E a \in DOMAIN instructionCache : instructionCache[a] = instruction

\* C38: loadProgram leaves the five stage slots, stalled, the cycle counter
\* and the predictor table as they are, so the instructions of the previous
\* program that are in flight go on through the remaining stages in the
\* steps after the load: each moves to the next slot, the one leaving MEM
\* writes its register and a sw leaving EX writes memory (the sw of the
\* programs in flight stores at byte address 4, word 1).
C38_LoadLeavesInFlight ==
    [][/\ hist'.op = "loadProgram" =>
              /\ pipelineStages' = pipelineStages /\ stalled' = stalled
              /\ cycle' = cycle /\ branchPredictor' = branchPredictor
       /\ (cycle' = cycle + 1 /\ loaded \in SecondPrograms) =>
              LET st == pipelineStages
                  st2 == pipelineStages'
              IN /\ \A slot \in DOMAIN NextSlot :
                        st[slot] # Null =>
                            /\ st2[NextSlot[slot]] # Null
                            /\ st2[NextSlot[slot]].instruction =
                                   (IF slot = "IF" THEN st.IF ELSE st[slot].instruction)
                 /\ \A r \in 0..(NumRegisters - 1) :
                        WritesReg(st.MEM, r) => registradores'[r] = st.MEM.result
                 /\ Holds(st.EX, {"sw"}) =>
                        memoria'.words[1] = registradores'[st.EX.instruction.rt]]_vars

\* after the second load, an add of the first program has written its
\* register and a sw of the first program has written memory
C38_Witness ==
    /\ Stepped /\ loaded \in SecondPrograms
    /\ WritesReg(pipelineStages.WB, 1) /\ ~InStore(pipelineStages.WB.instruction)
    /\ registradores[1] = Num(3) /\ start.registradores[1] = Num(0)
    /\ Holds(pipelineStages.MEM, {"sw"}) /\ ~InStore(pipelineStages.MEM.instruction)
    /\ memoria.words[1] = Num(1)

-----------------------------------------------------------------------------
\* C39: under every interleaving of run, stop, setRunSpeed, reset, clicks
\* on the two buttons and timer callbacks, at most one interval timer is
\* active, isRunning holds exactly when runInterval is set and exactly when
\* a timer is active (so none fires after stop, reset or a next-cycle
\* click); run while running and stop while stopped change nothing; and a
\* timer callback or a next-cycle click is one whole executeCycle.
C39_SingleTimer ==
    /\ [](/\ Cardinality(timers) <= 1
          /\ isRunning <=> runInterval # NullValue
          /\ isRunning <=> timers # {}
          /\ isRunning => timers = {runInterval[2]})
    /\ [][/\ (hist'.op = "run" /\ isRunning) => Machine' = Machine
          /\ (hist'.op = "stop" /\ ~isRunning) => Machine' = Machine
          /\ hist'.op \in {"stop", "reset", "nextCycle"} => (~isRunning' /\ timers' = {})
          /\ hist'.op = "timer" =>
                 (isRunning /\ timers # {} /\ Machine' = ExecuteCycle(Machine))
          /\ hist'.op = "nextCycle" => Machine' = ExecuteCycle(Stop(Machine))]_vars

\* run has just been called on a running simulator whose timer has fired,
\* after a change of speed
C39_Witness ==
    /\ hist.op = "run" /\ hist.before.isRunning
    /\ isRunning /\ Cardinality(timers) = 1
    /\ cycle > 0 /\ runSpeed # DefaultRunSpeed

-----------------------------------------------------------------------------
\* executeID of part_000 has just squashed on a mispredicted beq: the beq
\* that was in IF did not reach ID, which holds a NOP
Mispredicted ==
    /\ Stepped /\ variant = "B"
    /\ hist.before.pipelineStages.IF # Null
    /\ Opcode(hist.before.pipelineStages.IF) = "beq"
    /\ pipelineStages.ID # Null
    /\ pipelineStages.ID.instruction = NopObject

\* C40: in part_000, after the ID stage has decoded a mispredicted beq and
\* set PC to the corrected address T, the next instruction of the store to
\* enter ID is the one stored at T: the IF slot, which the next step
\* decodes, holds the instruction fetched at T after the squash and not the
\* NOP of the squash, also when the step of the misprediction is stalled.
\* executeIF fetches nothing in a stalled step, so this fails: the NOP stays
\* in IF, the next step decodes it and PC moves to T + 4.
C40_MispredictionRecovery ==
    (Mispredicted /\ PC \in DOMAIN instructionCache) =>
        /\ pipelineStages.IF = instructionCache[PC]
        /\ instance.IF > instance.ID

====
